---- MODULE Spec2Model ----
(***************************************************************************)
(* A model of build() in src/build.ts: the compiler that turns an OpenAPI  *)
(* document into a type module, a validator module and a runtime module.   *)
(*                                                                         *)
(* Strings are sequences of one-character strings, so that the regular     *)
(* expressions of the source (toTypeName, enumKey, /CommandOptionType/i)   *)
(* are computed and not assumed.  A JSON value is <<kind, text>> with kind *)
(* "num" or "str"; === on primitives is equality of such pairs.  A schema  *)
(* node is a record with one field per keyword and the set of keywords it  *)
(* carries in .keys.  The identity of a node (the key of the Set `visited` *)
(* and of the Map `schemaCache`) is its position in the parsed document.   *)
(***************************************************************************)
EXTENDS Integers, Sequences, FiniteSets, TLC

\* ------------------------------------------------------------------ bounds
\* most references in the body of one Named Definition of the graph documents
MaxRefs == 2
\* longest value list of an Enum Definition / inline enum of the enum documents
MaxEnumLen == 2
\* most content types in one content map of the content documents
MaxContent == 2
\* the longest `type` list of a schema node
MaxTypes == 2
\* most route-level parameters of the parameter documents
MaxRouteParams == 1

\* ------------------------------------------------------------ characters
UpperChars ==
  <<"A","B","C","D","E","F","G","H","I","J","K","L","M",
    "N","O","P","Q","R","S","T","U","V","W","X","Y","Z">>
LowerChars ==
  <<"a","b","c","d","e","f","g","h","i","j","k","l","m",
    "n","o","p","q","r","s","t","u","v","w","x","y","z">>
Digits == {"0","1","2","3","4","5","6","7","8","9"}
Range(s) == {s[i] : i \in DOMAIN s}
\* \w of a JavaScript regular expression
WordChars == Range(UpperChars) \cup Range(LowerChars) \cup Digits \cup {"_"}
\* [A-Za-z_$] and [A-Za-z0-9_$] of enumKey / safeKey
IdentStart == Range(UpperChars) \cup Range(LowerChars) \cup {"_", "$"}
IdentPart == IdentStart \cup Digits

IndexOf(c, s) == CHOOSE i \in DOMAIN s : s[i] = c
toUpperChar(c) == IF c \in Range(LowerChars) THEN UpperChars[IndexOf(c, LowerChars)] ELSE c
toLowerChar(c) == IF c \in Range(UpperChars) THEN LowerChars[IndexOf(c, UpperChars)] ELSE c
\* String.prototype.toUpperCase / toLowerCase
toUpperCase(s) == [i \in DOMAIN s |-> toUpperChar(s[i])]
toLowerCase(s) == [i \in DOMAIN s |-> toLowerChar(s[i])]

\* String.prototype.includes(sub)
Includes(s, sub) ==
  \E i \in 0..(Len(s) - Len(sub)) : \A j \in 1..Len(sub) : s[i + j] = sub[j]

RECURSIVE DropNonWord(_)
DropNonWord(n) ==
  IF n = <<>> \/ Head(n) \in WordChars THEN n ELSE DropNonWord(Tail(n))

\* n.replace(/[^\w]+/g, "_")
RECURSIVE ReplaceNonWord(_)
ReplaceNonWord(n) ==
  IF n = <<>> THEN <<>>
  ELSE IF Head(n) \in WordChars THEN <<Head(n)>> \o ReplaceNonWord(Tail(n))
  ELSE <<"_">> \o ReplaceNonWord(DropNonWord(Tail(n)))

toTypeName(n) ==
  LET r == ReplaceNonWord(n)
  IN IF r # <<>> /\ r[1] \in Digits THEN <<"_">> \o r ELSE r

\* /^[A-Za-z_$][A-Za-z0-9_$]*$/.test(name)
IsIdentifier(name) ==
  /\ name # <<>>
  /\ name[1] \in IdentStart
  /\ \A i \in DOMAIN name : name[i] \in IdentPart

\* JSON.stringify of a string without characters that need escaping
QuoteString(s) == <<"\"">> \o s \o <<"\"">>

enumKey(name) == IF IsIdentifier(name) THEN name ELSE QuoteString(name)

safeKey(name) == IF IsIdentifier(name) THEN name ELSE QuoteString(name)

\* ------------------------------------------------------------ JSON values
Num(text) == <<"num", text>>
Str(text) == <<"str", text>>
IsString(v) == v[1] = "str"
\* JSON.stringify(v) and String(v) of a primitive
JsonStringify(v) == IF IsString(v) THEN QuoteString(v[2]) ELSE v[2]
StringOf(v) == v[2]
\* typeof v === "string" ? v.toUpperCase() : String(v)
defaultVarname(v) == IF IsString(v) THEN toUpperCase(v[2]) ELSE StringOf(v)

\* ------------------------------------------------------------ schema nodes
\* A Schema Node: .keys is the set of keywords it carries; a single-valued
\* keyword holding a schema (items, additionalProperties, not, then, else) is
\* a sequence of at most one node.  "typeList" stands for a `type` that is an
\* array, "additionalProperties:true" for the boolean form.
NoValue == Num(<<>>)
Node0 ==
  [keys |-> {}, ref |-> <<>>, enum |-> <<>>, const |-> NoValue,
   oneOf |-> <<>>, anyOf |-> <<>>, allOf |-> <<>>, items |-> <<>>,
   properties |-> <<>>, additionalProperties |-> <<>>,
   nott |-> <<>>, thenn |-> <<>>, elsee |-> <<>>,
   type |-> <<>>, required |-> {}, varnames |-> <<>>, title |-> <<>>]
Has(s, k) == k \in s.keys

SchemaRef(n) == <<"#/components/schemas", n>>
ParameterRef(n) == <<"#/components/parameters", n>>

RefTo(n) == [Node0 EXCEPT !.keys = {"$ref"}, !.ref = SchemaRef(n)]
Prim(t) == [Node0 EXCEPT !.keys = {"type"}, !.type = <<t>>]
TypeList(ts) == [Node0 EXCEPT !.keys = {"typeList"}, !.type = ts]
Obj(props) ==
  [Node0 EXCEPT !.keys = {"type", "properties"}, !.type = <<"object">>, !.properties = props]
Arr(item) ==
  [Node0 EXCEPT !.keys = {"type", "items"}, !.type = <<"array">>, !.items = <<item>>]
OneOf(list) == [Node0 EXCEPT !.keys = {"oneOf"}, !.oneOf = list]
AnyOf(list) == [Node0 EXCEPT !.keys = {"anyOf"}, !.anyOf = list]
AllOf(list) == [Node0 EXCEPT !.keys = {"allOf"}, !.allOf = list]
EnumNode(vals) == [Node0 EXCEPT !.keys = {"enum"}, !.enum = vals]
ConstNode(v) == [Node0 EXCEPT !.keys = {"const"}, !.const = v]
TitledConst(v, t) == [Node0 EXCEPT !.keys = {"const", "title"}, !.const = v, !.title = t]
WithAllOf(node, list) == [node EXCEPT !.keys = @ \cup {"allOf"}, !.allOf = list]
WithVarnames(node, names) ==
  [node EXCEPT !.keys = @ \cup {"x-enum-varnames"}, !.varnames = names]

\* the slot of a child schema: the last step of the child's position in the
\* document (the j-th entry of a list keyword sits in slot base + j)
Slot ==
  [oneOf |-> 100, anyOf |-> 200, allOf |-> 300, items |-> 400, properties |-> 500,
   additionalProperties |-> 600, nott |-> 700, thenn |-> 800, elsee |-> 900]

\* ------------------------------------------------------------- the document
Param0 ==
  [keys |-> {}, ref |-> <<>>, name |-> <<>>, in |-> "", required |-> FALSE,
   schema |-> <<>>, content |-> <<>>]
\* a content map is a sequence of <<content type, entry>>, entry.schema a
\* sequence of at most one node
Entry(schemas) == [schema |-> schemas]
SchemaParam(name, in, required, node) ==
  [Param0 EXCEPT !.keys = {"name", "in", "schema"}, !.name = name, !.in = in,
                 !.required = required, !.schema = <<node>>]
NoInParam(name, node) ==
  [Param0 EXCEPT !.keys = {"name", "schema"}, !.name = name, !.schema = <<node>>]
ContentParam(name, in, content) ==
  [Param0 EXCEPT !.keys = {"name", "in", "content"}, !.name = name, !.in = in,
                 !.content = content]
RefParam(n) == [Param0 EXCEPT !.keys = {"$ref"}, !.ref = ParameterRef(n)]

Body0 == [keys |-> {}, content |-> <<>>]
WithContent(content) == [keys |-> {"content"}, content |-> content]
Op0 ==
  [keys |-> {}, parameters |-> <<>>, requestBody |-> Body0, responses |-> <<>>,
   operationId |-> <<>>]
\* an operation is given by its parameters, its request body content (or none)
\* and its responses <<code, response>>
OpWith(params, bodies, responses) ==
  [Op0 EXCEPT
     !.keys = (IF params # <<>> THEN {"parameters"} ELSE {})
              \cup (IF bodies # <<>> THEN {"requestBody"} ELSE {})
              \cup (IF responses # <<>> THEN {"responses"} ELSE {}),
     !.parameters = params,
     !.requestBody = IF bodies # <<>> THEN bodies[1] ELSE Body0,
     !.responses = responses]
\* a path item: the route-level parameters (the value of its key `parameters`,
\* when it has one) and its entries <<key, operation>> in document order; the
\* key `parameters` is one of the entries (Object.values yields it too)
KeyParameters == <<"p","a","r","a","m","e","t","e","r","s">>
PathItem(params, entries) ==
  [keys |-> IF params # <<>> THEN {"parameters"} ELSE {},
   parameters |-> params,
   entries |-> (IF params # <<>> THEN << <<KeyParameters, Op0>> >> ELSE <<>>) \o entries]

Doc(schemas, parameters, paths) ==
  [schemas |-> schemas, parameters |-> parameters, paths |-> paths]

\* table[key] of a JSON object given as a sequence of <<key, value>>: the index
\* of the key, 0 when the object has no such key
IndexOfKey(table, key) ==
  IF \E i \in DOMAIN table : table[i][1] = key
  THEN CHOOSE i \in DOMAIN table : table[i][1] = key
  ELSE 0
HasKey(table, key) == IndexOfKey(table, key) # 0

\* ------------------------------------------------------------------- state
VARIABLES
  openapi,          \* the parsed input document (never written after Init)
  pc,               \* the section of build() that runs next
  idx,              \* the index of the running loop of that section
  enums,            \* the Enum Definition table, a sequence of <<key, e>>
  usedComponents,   \* Set<string>
  usedEnums,        \* Set<string>
  visited,          \* Set<SchemaLike>: positions of the nodes markSchema expanded
  schemaCache,      \* Map<any, string>: position |-> rendered type
  walkLog,          \* history: the positions markSchema expanded, in order
  overrun,          \* history: a recursion exceeded the size of the document
  componentsOut,    \* the `export type` entries, in order
  componentsZodOut, \* the `export const <Name>Schema` entries, in order
  pathsOut,         \* the Paths interface: one entry per route
  pathsListMap,     \* method |-> routes
  operationAliasesOut, \* the per-operation aliases, in order
  output,           \* the sections of the type module, once assembled
  outputJs          \* the sections of the runtime module, once assembled

vars ==
  <<openapi, pc, idx, enums, usedComponents, usedEnums, visited, schemaCache,
    walkLog, overrun, componentsOut, componentsZodOut, pathsOut, pathsListMap,
    operationAliasesOut, output, outputJs>>

\* ------------------------------------------------------- positions of nodes
ListChildren(list, base) == [j \in DOMAIN list |-> <<base + j, list[j]>>]
\* the children markSchema recurses into, in its order, each with its slot
Children(s) ==
  (IF Has(s, "oneOf") THEN ListChildren(s.oneOf, Slot.oneOf) ELSE <<>>)
  \o (IF Has(s, "anyOf") THEN ListChildren(s.anyOf, Slot.anyOf) ELSE <<>>)
  \o (IF Has(s, "allOf") THEN ListChildren(s.allOf, Slot.allOf) ELSE <<>>)
  \o (IF Has(s, "items") THEN << <<Slot.items, s.items[1]>> >> ELSE <<>>)
  \o (IF Has(s, "properties")
      THEN [j \in DOMAIN s.properties |-> <<Slot.properties + j, s.properties[j][2]>>]
      ELSE <<>>)
  \o (IF Has(s, "additionalProperties")
      THEN << <<Slot.additionalProperties, s.additionalProperties[1]>> >> ELSE <<>>)
  \o (IF Has(s, "not") THEN << <<Slot.nott, s.nott[1]>> >> ELSE <<>>)
  \o (IF Has(s, "then") THEN << <<Slot.thenn, s.thenn[1]>> >> ELSE <<>>)
  \o (IF Has(s, "else") THEN << <<Slot.elsee, s.elsee[1]>> >> ELSE <<>>)

SchemaId(i) == <<1, i>>
\* the schemas of a content map found at position `base`
ContentSchemas(content, base) ==
  [c \in DOMAIN content |->
     IF content[c][2].schema # <<>>
     THEN << <<Append(base, c), content[c][2].schema[1]>> >> ELSE <<>>]
\* the schema of parameter p (p.schema, or the schemas under p.content)
ParamSchemaId(base) == base
ParamContentId(base) == Append(base, 0)

RECURSIVE Flatten(_)
Flatten(ss) == IF ss = <<>> THEN <<>> ELSE Head(ss) \o Flatten(Tail(ss))

ParamRoots(p, base) ==
  (IF p.schema # <<>> THEN << <<ParamSchemaId(base), p.schema[1]>> >> ELSE <<>>)
  \o Flatten(ContentSchemas(p.content, ParamContentId(base)))
BodyRoots(body, base) == Flatten(ContentSchemas(body.content, base))
OpRoots(op, base) ==
  Flatten([j \in DOMAIN op.parameters |-> ParamRoots(op.parameters[j], base \o <<2, j>>)])
  \o BodyRoots(op.requestBody, base \o <<3>>)
  \o Flatten([k \in DOMAIN op.responses |->
                BodyRoots(op.responses[k][2], base \o <<4, k>>)])
ItemRoots(item, r) ==
  Flatten([j \in DOMAIN item.parameters |-> ParamRoots(item.parameters[j], <<3, r, 1, j>>)])
  \o Flatten([e \in DOMAIN item.entries |-> OpRoots(item.entries[e][2], <<3, r, 5, e>>)])
\* every schema the document holds outside components.schemas, with its position
PathRoots(d) == Flatten([r \in DOMAIN d.paths |-> ItemRoots(d.paths[r][2], r)])
ParameterRoots(d) ==
  Flatten([i \in DOMAIN d.parameters |-> ParamRoots(d.parameters[i][2], <<2, i>>)])
SchemaRoots(d) == [i \in DOMAIN d.schemas |-> <<SchemaId(i), d.schemas[i][2]>>]
AllRoots(d) == SchemaRoots(d) \o ParameterRoots(d) \o PathRoots(d)

RECURSIVE SumSeq(_)
SumSeq(s) == IF s = <<>> THEN 0 ELSE Head(s) + SumSeq(Tail(s))
RECURSIVE CountNodes(_)
CountNodes(s) ==
  LET ch == Children(s) IN 1 + SumSeq([j \in DOMAIN ch |-> CountNodes(ch[j][2])])
\* the number of schema nodes of the document
NodeCount(d) ==
  LET roots == AllRoots(d) IN SumSeq([j \in DOMAIN roots |-> CountNodes(roots[j][2])])
RECURSIVE MaxSeq(_)
MaxSeq(s) == IF s = <<>> THEN 0 ELSE LET m == MaxSeq(Tail(s)) IN IF Head(s) > m THEN Head(s) ELSE m
RECURSIVE NodeDepth(_)
NodeDepth(s) ==
  LET ch == Children(s) IN 1 + MaxSeq([j \in DOMAIN ch |-> NodeDepth(ch[j][2])])
\* the deepest nesting of a schema of the document
TreeDepth(d) ==
  LET roots == AllRoots(d) IN MaxSeq([j \in DOMAIN roots |-> NodeDepth(roots[j][2])])

\* all nodes below (and including) a node, each with its position
RECURSIVE NodesUnder(_, _)
NodesUnder(s, id) ==
  LET ch == Children(s)
  IN << <<id, s>> >> \o Flatten([j \in DOMAIN ch |-> NodesUnder(ch[j][2], Append(id, ch[j][1]))])
AllNodes(d) ==
  LET roots == AllRoots(d)
  IN Flatten([j \in DOMAIN roots |-> NodesUnder(roots[j][2], roots[j][1])])

\* ------------------------------------------------------------ collect enums
\* def.enum && Array.isArray(def.enum) && def.enum.length
IsEnumList(def) == Has(def, "enum") /\ def.enum # <<>>
\* def.oneOf is a non-empty array whose entries all have a `const`
IsOneOfConst(def) ==
  /\ Has(def, "oneOf")
  /\ def.oneOf # <<>>
  /\ \A i \in DOMAIN def.oneOf : Has(def.oneOf[i], "const")
\* the table entry of a definition in either encoding (descriptions and doc
\* only feed comments of the output and are left out)
enumOf(def) ==
  IF IsEnumList(def)
  THEN [values |-> def.enum,
        varnames |-> IF Has(def, "x-enum-varnames") THEN def.varnames
                     ELSE [i \in DOMAIN def.enum |-> defaultVarname(def.enum[i])]]
  ELSE [values |-> [i \in DOMAIN def.oneOf |-> def.oneOf[i].const],
        varnames |-> [i \in DOMAIN def.oneOf |->
                        IF Has(def.oneOf[i], "title") THEN def.oneOf[i].title
                        ELSE defaultVarname(def.oneOf[i].const)]]
RECURSIVE collectEnums(_)
collectEnums(schemas) ==
  IF schemas = <<>> THEN <<>>
  ELSE LET key == Head(schemas)[1]
           def == Head(schemas)[2]
       IN (IF IsEnumList(def) \/ IsOneOfConst(def) THEN << <<key, enumOf(def)>> >> ELSE <<>>)
          \o collectEnums(Tail(schemas))

\* ----------------------------------------------------------- usage tracking
\* The operators below take the mutable tables of build() as a record st
\* (usedComponents, usedEnums, visited, schemaCache, and the history fields
\* walkLog, fuel, depth, overrun) and return it updated.
IsEnum(name) == HasKey(enums, name)
EnumAt(name) == enums[IndexOfKey(enums, name)][2]

\* a mark that does not look the name up in the enum table
markEnumUseUnchecked(name, st) == [st EXCEPT !.usedEnums = @ \cup {name}]
\* lines 204-206
markEnumUse(name, st) ==
  IF IsEnum(name) THEN [st EXCEPT !.usedEnums = @ \cup {name}] ELSE st

markComponent(name, st) ==
  markEnumUse(name, [st EXCEPT !.usedComponents = @ \cup {name}])

\* ref.split("/") is held split: the pointer is <<prefix, last part>>
resolveRef(ref) == toTypeName(ref[Len(ref)])

\* openapi.components?.parameters?.[name] ?? null, as a sequence of at most one
resolveParameterRef(ref) ==
  LET i == IndexOfKey(openapi.parameters, ref[Len(ref)])
  IN IF i = 0 THEN <<>> ELSE <<openapi.parameters[i][2]>>

\* ------------------------------------------------------------- markSchema
\* fuel is the number of node bodies markSchema may still expand; it starts at
\* the number of schema nodes of the document, and a walk that wants more sets
\* overrun (on the source: a walk that expands some node a second time).
RECURSIVE markSchema(_, _, _)
RECURSIVE markChildren(_, _, _)

markSchemaNoVisited(schema, id, st) ==
  IF st.fuel = 0 THEN [st EXCEPT !.overrun = TRUE]
  ELSE
    LET st1 == [st EXCEPT !.visited = @ \cup {id}, !.walkLog = Append(@, id),
                         !.fuel = @ - 1]
    IN IF Has(schema, "$ref")
       THEN LET refName == resolveRef(schema.ref)
                st2 == markComponent(refName, st1)
                t == IndexOfKey(openapi.schemas, refName)
            IN IF t # 0 THEN markSchema(openapi.schemas[t][2], SchemaId(t), st2) ELSE st2
       ELSE markChildren(Children(schema), id, st1)

markSchema(schema, id, st) ==
  IF id \in st.visited THEN st
  ELSE IF st.fuel = 0 THEN [st EXCEPT !.overrun = TRUE]
  ELSE
    LET st1 == [st EXCEPT !.visited = @ \cup {id}, !.walkLog = Append(@, id),
                         !.fuel = @ - 1]
    IN IF Has(schema, "$ref")
       THEN LET refName == resolveRef(schema.ref)
                st2 == markComponent(refName, st1)
                t == IndexOfKey(openapi.schemas, refName)
            IN IF t # 0 THEN markSchema(openapi.schemas[t][2], SchemaId(t), st2) ELSE st2
       ELSE markChildren(Children(schema), id, st1)

markChildren(children, id, st) ==
  IF children = <<>> THEN st
  ELSE markChildren(Tail(children), id,
                    markSchema(Head(children)[2], Append(id, Head(children)[1]), st))

\* markSchema on each <<position, schema>> of a list, in order
RECURSIVE markEach(_, _)
markEach(roots, st) ==
  IF roots = <<>> THEN st
  ELSE markEach(Tail(roots), markSchema(Head(roots)[2], Head(roots)[1], st))

\* markContent(content) at position base
markContent(body, base, st) ==
  LET content == body.content
      j == IndexOfKey(content, "application/json")
      mp == IndexOfKey(content, "application/merge-patch+json")
      \* content["application/json"] || content["application/merge-patch+json"]
      pick == IF j # 0 THEN j ELSE mp
  IN IF pick # 0 /\ content[pick][2].schema # <<>>
     THEN markSchema(content[pick][2].schema[1], Append(base, pick), st)
     ELSE markEach(Flatten(ContentSchemas(content, base)), st)

\* ------------------------------------------------------------ enum lookups
\* A rendered type is a sequence of tokens <<kind, text>>; the string the
\* source builds is the concatenation of the texts.  Kinds: "name" (a Named
\* Definition or enum type), "member" (an enum member), "lit" (a JSON
\* literal), "prim", "prop" (a property name), "punct".
Tk(kind, text) == <<kind, text>>
Text(t) == Flatten([i \in DOMAIN t |-> t[i][2]])
NameType(name) == << Tk("name", toTypeName(name)) >>
\* `${toTypeName(name)}.${toTypeName(varname)}`
MemberType(name, varname) ==
  << Tk("name", toTypeName(name)), Tk("punct", <<".">>), Tk("member", toTypeName(varname)) >>
LiteralType(v) == << Tk("lit", JsonStringify(v)) >>
PrimType(text) == << Tk("prim", text) >>
tString == PrimType(<<"s","t","r","i","n","g">>)
tNumber == PrimType(<<"n","u","m","b","e","r">>)
tBoolean == PrimType(<<"b","o","o","l","e","a","n">>)
tNull == PrimType(<<"n","u","l","l">>)
tUnknown == PrimType(<<"u","n","k","n","o","w","n">>)
tRecord ==
  PrimType(<<"R","e","c","o","r","d","<","s","t","r","i","n","g",","," ",
             "u","n","k","n","o","w","n",">">>)
pOr == << Tk("punct", <<" ","|"," ">>) >>
pAnd == << Tk("punct", <<" ","&"," ">>) >>
RECURSIVE Join(_, _)
Join(ts, sep) ==
  IF ts = <<>> THEN <<>>
  ELSE IF Len(ts) = 1 THEN ts[1]
  ELSE ts[1] \o sep \o Join(Tail(ts), sep)

\* the result of a lookup: found = FALSE stands for null; a lookup that finds
\* nothing leaves the tables as they were
NotFound(st) == [found |-> FALSE, t |-> <<>>, st |-> st]
Found(t, st) == [found |-> TRUE, t |-> t, st |-> st]
\* a || b || c
FirstOf(a, b, c) == IF a.found THEN a ELSE IF b.found THEN b ELSE c

MinOrZero(S) == IF S = {} THEN 0 ELSE CHOOSE i \in S : \A j \in S : i <= j
\* e.values.findIndex((v) => v === val), 0 for -1
FindIndex(values, val) == MinOrZero({ i \in DOMAIN values : values[i] = val })
\* the first index of a sequence that satisfies P, 0 when none does
FirstIndex(s, P(_)) == MinOrZero({ i \in DOMAIN s : P(s[i]) })

\* /CommandOptionType/i.test(name)
CommandOptionType ==
  <<"C","o","m","m","a","n","d","O","p","t","i","o","n","T","y","p","e">>
IsGenericDiscriminator(name) ==
  Includes(toLowerCase(name), toLowerCase(CommandOptionType))

\* a comparison that accepts the values as a prefix of the enum's
PrefixSequence(a, b) == Len(a) >= Len(b) /\ \A i \in DOMAIN b : a[i] = b[i]
\* e.values.length === values.length && e.values.every((v, i) => v === values[i])
SameSequence(a, b) == Len(a) = Len(b) /\ \A i \in DOMAIN a : a[i] = b[i]

\* for an entry en = <<name, e>> of enums:
\* markEnumUse(name); return toTypeName(name)
FoundEnum(en, st) == Found(NameType(en[1]), markEnumUse(en[1], st))
\* markEnumUse(name); return `${toTypeName(name)}.${toTypeName(e.varnames[idx])}`
FoundMember(en, val, st) ==
  Found(MemberType(en[1], en[2].varnames[FindIndex(en[2].values, val)]),
        markEnumUse(en[1], st))

\* lines 228-233: the first enum whose values are exactly `values`
exactMatch(values) ==
  FirstIndex(enums, LAMBDA en : SameSequence(en[2].values, values))
\* lines 235-246: the first enum that holds the single value and is not skipped
singleMatch(values) ==
  IF Len(values) = 1
  THEN FirstIndex(enums, LAMBDA en :
         FindIndex(en[2].values, values[1]) # 0 /\ ~IsGenericDiscriminator(en[1]))
  ELSE 0
mapEnumForEnumAt(exact, single, values, st) ==
  IF exact # 0 THEN FoundEnum(enums[exact], st)
  ELSE IF single # 0 THEN FoundMember(enums[single], values[1], st)
  ELSE NotFound(st)
mapEnumForEnum(values, st) ==
  mapEnumForEnumAt(exactMatch(values), singleMatch(values), values, st)

\* lines 250-259
mapEnumForConstAt(i, value, st) ==
  IF i # 0 THEN FoundMember(enums[i], value, st) ELSE NotFound(st)
mapEnumForConst(value, st) ==
  mapEnumForConstAt(FirstIndex(enums, LAMBDA en : FindIndex(en[2].values, value) # 0),
                    value, st)

\* lines 266-270, the candidate values of an allOf entry: target.enum when the
\* target has an enum array, else the values of enums[refName]; <<FALSE, <<>>>>
\* when neither
candidateValuesAt(t, refName) ==
  IF t # 0 /\ Has(openapi.schemas[t][2], "enum") THEN <<TRUE, openapi.schemas[t][2].enum>>
  ELSE IF IsEnum(refName) THEN <<TRUE, EnumAt(refName).values>>
  ELSE <<FALSE, <<>>>>
candidateValues(refName) == candidateValuesAt(IndexOfKey(openapi.schemas, refName), refName)
\* values.every((v) => candidateValues.includes(v))
Covers(c, values) == c[1] /\ \A i \in DOMAIN values : \E j \in DOMAIN c[2] : c[2][j] = values[i]
\* whether the loop of mapEnumFromAllOf stops at this entry
AllOfEntryMatches(entry, values) ==
  Has(entry, "$ref") /\ Covers(candidateValues(resolveRef(entry.ref)), values)

\* lines 275-280, for the entry the loop stops at
mapEnumFromAllOfRef(refName, values, st) ==
  IF Len(values) = 1 /\ IsEnum(refName) /\ FindIndex(EnumAt(refName).values, values[1]) # 0
  THEN Found(MemberType(refName,
               EnumAt(refName).varnames[FindIndex(EnumAt(refName).values, values[1])]),
             markEnumUse(refName, st))
  ELSE Found(NameType(refName), markEnumUse(refName, st))
mapEnumFromAllOfAt(i, values, allOf, st) ==
  IF i = 0 THEN NotFound(st) ELSE mapEnumFromAllOfRef(resolveRef(allOf[i].ref), values, st)
\* lines 261-284
mapEnumFromAllOf(values, allOf, st) ==
  mapEnumFromAllOfAt(FirstIndex(allOf, LAMBDA entry : AllOfEntryMatches(entry, values)),
                     values, allOf, st)

\* lines 293-298; value is a sequence of at most one value (empty for undefined)
mapEnumFromRefsRef(refName, value, st) ==
  IF value # <<>> /\ FindIndex(EnumAt(refName).values, value[1]) # 0
  THEN Found(MemberType(refName,
               EnumAt(refName).varnames[FindIndex(EnumAt(refName).values, value[1])]),
             markEnumUse(refName, st))
  ELSE Found(NameType(refName), markEnumUse(refName, st))
mapEnumFromRefsAt(i, allOf, value, st) ==
  IF i = 0 THEN NotFound(st) ELSE mapEnumFromRefsRef(resolveRef(allOf[i].ref), value, st)
\* lines 286-301
mapEnumFromRefs(allOf, value, st) ==
  mapEnumFromRefsAt(FirstIndex(allOf, LAMBDA entry :
                      Has(entry, "$ref") /\ IsEnum(resolveRef(entry.ref))),
                    allOf, value, st)

\* ---------------------------------------------------------- typeFromSchema
\* An object literal the source builds on the fly ({}, { type: schema.type },
\* { ...schema, type: "object" }) is a new identity on every call: its
\* position starts with 0, it is never found in schemaCache, and its children
\* (a spread copy shares them with the original) keep their own positions.
IsFresh(id) == id # <<>> /\ id[1] = 0
BaseId(id) == IF IsFresh(id) THEN Tail(id) ELSE id
FreshId == <<0>>
FreshCopyId(id) == <<0>> \o BaseId(id)
ChildId(id, slot) == Append(BaseId(id), slot)

\* a rendering with the tables the call left
Result(t, st) == [t |-> t, st |-> st]
\* schemaCache.set(schema, t); return t
Cached(id, t, st) ==
  Result(t, IF IsFresh(id) THEN st ELSE [st EXCEPT !.schemaCache = (id :> t) @@ @])
CachedAs(id, r) == Cached(id, r.t, r.st)
\* the renderings of a list.map(...) with the tables the last call left
Cons(t, rest) == [ts |-> <<t>> \o rest.ts, st |-> rest.st]
\* list.map(...).join(sep)
Joined(r, sep) == Result(Join(r.ts, sep), r.st)

HasBar(t) == \E i \in DOMAIN t : "|" \in Range(t[i][2])
\* itemType.includes("|") ? `(${itemType})[]` : `${itemType}[]`
ArrayOf(itemType) ==
  IF HasBar(itemType)
  THEN << Tk("punct", <<"(">>) >> \o itemType \o << Tk("punct", <<")","[","]">>) >>
  ELSE itemType \o << Tk("punct", <<"[","]">>) >>
ArrayResult(r) == Result(ArrayOf(r.t), r.st)

TypeLikeNames ==
  { <<"t","y","p","e">>,
    <<"c","o","m","p","o","n","e","n","t","_","t","y","p","e">>,
    <<"t","r","i","g","g","e","r","_","t","y","p","e">> }

\* depth is the number of typeFromSchema calls on the stack; limit bounds it by
\* the nesting of the document, and a call beyond it sets overrun.
RECURSIVE typeFromSchema(_, _, _)
RECURSIVE typeFromEach(_, _)
RECURSIVE objectProps(_, _, _, _)
RECURSIVE typeListEntries(_, _, _, _)

\* a $ref branch that renders the body of the target in place of its name
typeOfRefInlined(schema, id, st) ==
  IF HasKey(openapi.schemas, resolveRef(schema.ref))
  THEN CachedAs(id, typeFromSchema(
                      openapi.schemas[IndexOfKey(openapi.schemas, resolveRef(schema.ref))][2],
                      FreshCopyId(SchemaId(IndexOfKey(openapi.schemas, resolveRef(schema.ref)))),
                      markComponent(resolveRef(schema.ref), st)))
  ELSE Cached(id, << Tk("name", resolveRef(schema.ref)) >>,
              markComponent(resolveRef(schema.ref), st))

\* lines 427-432
typeOfRef(schema, id, st) ==
  Cached(id, << Tk("name", resolveRef(schema.ref)) >>,
         markComponent(resolveRef(schema.ref), st))

\* schema.enum.map((v) => JSON.stringify(v)).join(" | ")
Literals(values) == Join([i \in DOMAIN values |-> LiteralType(values[i])], pOr)

\* lines 435-451
typeOfEnum(schema, id, st) ==
  CachedAs(id, FirstOf(mapEnumForEnum(schema.enum, st),
                       IF Has(schema, "allOf")
                       THEN mapEnumFromAllOf(schema.enum, schema.allOf, st)
                       ELSE NotFound(st),
                       Found(Literals(schema.enum), st)))

\* lines 452-466
typeOfConst(schema, id, st) ==
  CachedAs(id, FirstOf(mapEnumForConst(schema.const, st),
                       IF Has(schema, "allOf")
                       THEN mapEnumFromAllOf(<<schema.const>>, schema.allOf, st)
                       ELSE NotFound(st),
                       Found(LiteralType(schema.const), st)))

\* { type: schema.type }
TypeOnly(schema) ==
  [Node0 EXCEPT !.keys = schema.keys \cap {"type", "typeList"}, !.type = schema.type]
HasType(schema) == Has(schema, "type") \/ Has(schema, "typeList")

\* the first of oneOf, anyOf, allOf the node carries: its list, the slot of
\* its entries and the separator
IsComposition(schema) == Has(schema, "oneOf") \/ Has(schema, "anyOf") \/ Has(schema, "allOf")
CompositionOf(schema) ==
  IF Has(schema, "oneOf") THEN [list |-> schema.oneOf, slot |-> Slot.oneOf, sep |-> pOr]
  ELSE IF Has(schema, "anyOf") THEN [list |-> schema.anyOf, slot |-> Slot.anyOf, sep |-> pOr]
  ELSE [list |-> schema.allOf, slot |-> Slot.allOf, sep |-> pAnd]

\* lines 469-499: oneOf / anyOf (" | ") and allOf (" & ")
typeOfComposition(c, schema, id, st) ==
  CachedAs(id,
    IF c.list = <<>>
    THEN (IF HasType(schema) THEN typeFromSchema(TypeOnly(schema), FreshId, st)
          ELSE Result(tUnknown, st))
    ELSE Joined(typeFromEach([j \in DOMAIN c.list |-> <<ChildId(id, c.slot + j), c.list[j]>>],
                             st),
                c.sep))

\* schema.items || {}
ItemsOf(schema, id) ==
  IF Has(schema, "items") THEN <<ChildId(id, Slot.items), schema.items[1]>>
  ELSE <<FreshId, Node0>>

\* lines 502-507
typeOfArray(schema, id, st) ==
  CachedAs(id, ArrayResult(typeFromSchema(ItemsOf(schema, id)[2], ItemsOf(schema, id)[1], st)))

\* lines 515-537: which branch a property takes (0 for the last), the values
\* it looks up (the single enum value or the const), and propSchema.allOf || []
propCase(propName, p) ==
  IF Has(p, "enum") /\ Len(p.enum) = 1 /\ Has(p, "allOf") THEN 1
  ELSE IF Has(p, "const") /\ Has(p, "allOf") THEN 2
  ELSE IF propName \in TypeLikeNames /\ Has(p, "enum") /\ Len(p.enum) = 1 THEN 3
  ELSE IF propName \in TypeLikeNames /\ Has(p, "const") THEN 4
  ELSE 0
propValues(case, p) == IF case \in {1, 3} THEN p.enum ELSE <<p.const>>
allOfOrEmpty(p) == IF Has(p, "allOf") THEN p.allOf ELSE <<>>

\* lines 527-528 and 533-534: mappedAll || mappedRefOnly || mapEnumForConst(..)
\* [|| mapEnumForEnum(..)]; mappedRefOnly is computed whatever mappedAll is
typeLikeMapped(mappedAll, mappedRefOnly, case, values) ==
  IF mappedAll.found THEN Found(mappedAll.t, mappedRefOnly.st)
  ELSE FirstOf(mappedRefOnly,
               mapEnumForConst(values[1], mappedRefOnly.st),
               IF case = 3 THEN mapEnumForEnum(values, mappedRefOnly.st)
               ELSE NotFound(mappedRefOnly.st))
\* the mapping of the property when its branch is not the last: mappedAllOf
\* in branches 1 and 2, mapped in branches 3 and 4
propMappedFrom(mappedAll, case, values, allOf) ==
  IF case \in {1, 2} THEN mappedAll
  ELSE typeLikeMapped(mappedAll, mapEnumFromRefs(allOf, values, mappedAll.st), case, values)
propMapped(case, p, st) ==
  IF case = 0 THEN NotFound(st)
  ELSE propMappedFrom(mapEnumFromAllOf(propValues(case, p), allOfOrEmpty(p), st),
                      case, propValues(case, p), allOfOrEmpty(p))
\* if (mapped) tsType = mapped; else tsType = typeFromSchema(propSchema)
OrTypeFromSchema(mapped, p, pid) ==
  IF mapped.found THEN Result(mapped.t, mapped.st) ELSE typeFromSchema(p, pid, mapped.st)
propType(propName, p, pid, st) ==
  OrTypeFromSchema(propMapped(propCase(propName, p), p, st), p, pid)

\* line 543: `  ${propName}${optional}: ${tsType}${nullable};\n`
FieldOf(required, propName, p, tsType) ==
  << Tk("punct", <<" "," ">>), Tk("prop", propName) >>
  \o (IF propName \in required THEN <<>> ELSE << Tk("punct", <<"?">>) >>)
  \o << Tk("punct", <<":"," ">>) >> \o tsType
  \o (IF Has(p, "nullable") THEN pOr \o tNull ELSE <<>>)
  \o << Tk("punct", <<";","\n">>) >>
Before(t, rest) == Result(t \o rest.t, rest.st)
FieldThen(r, props, j, schema_id) ==
  Before(FieldOf(props[1], props[2][j][1], props[2][j][2], r.t),
         objectProps(props, j + 1, schema_id, r.st))
\* lines 514-544: the fields of the record type, props = <<required, properties>>
objectProps(props, j, schema_id, st) ==
  IF j > Len(props[2]) THEN Result(<<>>, st)
  ELSE FieldThen(propType(props[2][j][1], props[2][j][2],
                          ChildId(schema_id, Slot.properties + j), st),
                 props, j, schema_id)

\* `  [key: string]: ${apType};\n`
IndexSignature(apType) ==
  << Tk("punct", <<" "," ","[","k","e","y",":"," ">>) >> \o tString
  \o << Tk("punct", <<"]",":"," ">>) >> \o apType \o << Tk("punct", <<";","\n">>) >>
Braces(fields) == << Tk("punct", <<"{","\n">>) >> \o fields \o << Tk("punct", <<"}">>) >>
WithIndex(fields, ap) == Result(Braces(fields \o IndexSignature(ap.t)), ap.st)
\* lines 546-554
CloseObject(schema, id, fields) ==
  IF Has(schema, "additionalProperties:true")
  THEN WithIndex(fields.t, Result(tUnknown, fields.st))
  ELSE IF Has(schema, "additionalProperties")
  THEN WithIndex(fields.t, typeFromSchema(schema.additionalProperties[1],
                                          ChildId(id, Slot.additionalProperties), fields.st))
  ELSE Result(Braces(fields.t), fields.st)
\* lines 510-556
typeOfObject(schema, id, st) ==
  CachedAs(id, CloseObject(schema, id,
                 objectProps(<<schema.required,
                               IF Has(schema, "properties") THEN schema.properties ELSE <<>>>>,
                             1, id, st)))

\* { ...schema, type: "object" }
AsObject(schema) ==
  [schema EXCEPT !.keys = (@ \ {"typeList"}) \cup {"type"}, !.type = <<"object">>]

\* lines 560-582: the rendering of one entry of a `type` array
typeListEntry(t, schema, id, st) ==
  IF t = "string" THEN Result(tString, st)
  ELSE IF t \in {"integer", "number"} THEN Result(tNumber, st)
  ELSE IF t = "boolean" THEN Result(tBoolean, st)
  ELSE IF t = "null" THEN Result(tNull, st)
  ELSE IF t = "array"
  THEN ArrayResult(typeFromSchema(ItemsOf(schema, id)[2], ItemsOf(schema, id)[1], st))
  ELSE IF t = "object" THEN typeFromSchema(AsObject(schema), FreshCopyId(id), st)
  ELSE Result(tUnknown, st)
EntryThen(r, schema, id, j) == Cons(r.t, typeListEntries(schema, id, j + 1, r.st))
typeListEntries(schema, id, j, st) ==
  IF j > Len(schema.type) THEN [ts |-> <<>>, st |-> st]
  ELSE EntryThen(typeListEntry(schema.type[j], schema, id, st), schema, id, j)

\* lines 559-586
typeOfTypeList(schema, id, st) ==
  CachedAs(id, Joined(typeListEntries(schema, id, 1, st), pOr))

\* lines 589-612
PrimitiveOf(t) ==
  IF t = "string" THEN tString
  ELSE IF t \in {"integer", "number"} THEN tNumber
  ELSE IF t = "boolean" THEN tBoolean
  ELSE IF t = "null" THEN tNull
  ELSE IF t = "object" THEN tRecord
  ELSE tUnknown
typeOfPrimitive(schema, id, st) ==
  Cached(id, PrimitiveOf(IF Has(schema, "type") THEN schema.type[1] ELSE ""), st)

\* lines 422-613, in the order of the source
typeOfNode(schema, id, st) ==
  IF ~IsFresh(id) /\ id \in DOMAIN st.schemaCache THEN Result(st.schemaCache[id], st)
  ELSE IF Has(schema, "$ref") THEN typeOfRef(schema, id, st)
  ELSE IF Has(schema, "enum") THEN typeOfEnum(schema, id, st)
  ELSE IF Has(schema, "const") THEN typeOfConst(schema, id, st)
  ELSE IF IsComposition(schema) THEN typeOfComposition(CompositionOf(schema), schema, id, st)
  ELSE IF Has(schema, "type") /\ schema.type = <<"array">> THEN typeOfArray(schema, id, st)
  ELSE IF (Has(schema, "type") /\ schema.type = <<"object">>) \/ Has(schema, "properties")
  THEN typeOfObject(schema, id, st)
  ELSE IF Has(schema, "typeList") THEN typeOfTypeList(schema, id, st)
  ELSE typeOfPrimitive(schema, id, st)

\* the call returns: one frame less on the stack
Return(r) == Result(r.t, [r.st EXCEPT !.depth = @ - 1])
typeFromSchema(schema, id, st) ==
  IF st.depth >= st.limit THEN Result(tUnknown, [st EXCEPT !.overrun = TRUE])
  ELSE Return(typeOfNode(schema, id, [st EXCEPT !.depth = @ + 1]))

\* nodes.map((s) => typeFromSchema(s)) on a list of <<position, schema>>
NodeThen(r, nodes) == Cons(r.t, typeFromEach(Tail(nodes), r.st))
typeFromEach(nodes, st) ==
  IF nodes = <<>> THEN [ts |-> <<>>, st |-> st]
  ELSE NodeThen(typeFromSchema(Head(nodes)[2], Head(nodes)[1], st), nodes)

\* ----------------------------------------------------------- zodFromSchema
\* The validator expression of a node, as tokens.  The /* @__PURE__ */
\* comments are left out, and so are the checks of the constraint keywords
\* (minLength, pattern, minimum, format, minItems, minProperties, ...): no
\* node of the documents explored carries one.
Z(text) == << Tk("z", text) >>
zUnknown == Z(<<"z",".","u","n","k","n","o","w","n","(",")">>)
zUndefined == Z(<<"z",".","u","n","d","e","f","i","n","e","d","(",")">>)
pComma == << Tk("punct", <<","," ">>) >>

\* lines 100-114
zPrimitive(schema) ==
  LET t == IF Has(schema, "type") THEN schema.type[1] ELSE ""
  IN IF t = "string" THEN Z(<<"z",".","s","t","r","i","n","g","(",")">>)
     ELSE IF t \in {"number", "integer"} THEN Z(<<"z",".","n","u","m","b","e","r","(",")">>)
     ELSE IF t = "boolean" THEN Z(<<"z",".","b","o","o","l","e","a","n","(",")">>)
     ELSE IF t = "null" THEN Z(<<"z",".","n","u","l","l","(",")">>)
     ELSE zUnknown

\* lines 148-153
zEnumSchema(values) ==
  IF \A i \in DOMAIN values : IsString(values[i])
  THEN Z(<<"z",".","e","n","u","m","(","[">>) \o Join([i \in DOMAIN values |-> LiteralType(values[i])], pComma)
       \o Z(<<"]",")">>)
  ELSE Z(<<"z",".","u","n","i","o","n","(","[">>)
       \o Join([i \in DOMAIN values |->
                  Z(<<"z",".","l","i","t","e","r","a","l","(">>) \o LiteralType(values[i]) \o Z(<<")">>)], pComma)
       \o Z(<<"]",")">>)

\* { ...schema, type: t }
WithType(schema, t) ==
  [schema EXCEPT !.keys = (@ \ {"typeList"}) \cup {"type"}, !.type = <<t>>]

RECURSIVE zodFromSchema(_, _)
RECURSIVE zodOfComposition(_, _, _, _, _)
RECURSIVE zodOfTypeList(_, _)
RECURSIVE zodOfObject(_, _)
RECURSIVE zodFromEach(_, _)
RECURSIVE zodProps(_, _, _)
RECURSIVE zodVariants(_, _, _)

\* lines 349-360: z.union([...]) for oneOf / anyOf, z.intersection(...) for allOf
zodOfComposition(list, open, close, schema, st) ==
  IF list = <<>>
  THEN Result(IF HasType(schema) THEN zPrimitive(schema) ELSE zUndefined, st)
  ELSE LET r == zodFromEach(list, st)
       IN Result(Z(open) \o Join(r.ts, pComma) \o Z(close), r.st)

\* lines 362-368
zodOfTypeList(schema, st) ==
  LET r == zodVariants(schema, 1, st)
  IN Result(Z(<<"z",".","u","n","i","o","n","(","[">>) \o Join(r.ts, pComma)
            \o Z(<<"]",")">>), r.st)

\* lines 377-403
zodOfObject(schema, st) ==
  LET props == IF Has(schema, "properties") THEN schema.properties ELSE <<>>
      entries == zodProps(props, 1, st)
      additional == IF Has(schema, "additionalProperties")
                    THEN zodFromSchema(schema.additionalProperties[1], entries.st)
                    ELSE Result(<<>>, entries.st)
      ap == IF Has(schema, "additionalProperties:true")
            THEN Z(<<"z",".","r","e","c","o","r","d","(","z",".","u","n","k","n","o","w","n","(",")",")">>)
            ELSE IF Has(schema, "additionalProperties")
            THEN Z(<<"z",".","r","e","c","o","r","d","(","z",".","s","t","r","i","n","g","(",")",","," ">>) \o additional.t \o Z(<<")">>)
            ELSE <<>>
      body == IF props # <<>>
              THEN Z(<<"{"," ">>) \o Join(entries.ts, pComma) \o Z(<<" ","}">>)
              ELSE Z(<<"{","}">>)
      baseObj == (IF Has(schema, "required") THEN Z(<<"z",".","s","t","r","i","c","t","O","b","j","e","c","t","(">>) ELSE Z(<<"z",".","o","b","j","e","c","t","(">>))
                 \o body \o Z(<<")">>)
  IN IF ap # <<>> /\ props = <<>> THEN Result(ap, additional.st)
     ELSE IF ap # <<>>
     THEN Result(Z(<<"z",".","i","n","t","e","r","s","e","c","t","i","o","n","(">>) \o baseObj \o pComma \o ap \o Z(<<")">>), additional.st)
     ELSE Result(baseObj, additional.st)

\* lines 333-420, in the order of the source
zodFromSchema(schema, st) ==
  IF Has(schema, "$ref")
  THEN LET t == resolveRef(schema.ref)
       IN Result(Z(<<"z",".","l","a","z","y","(","(",")"," ","=",">"," ">>) \o << Tk("name", t) >> \o Z(<<"S","c","h","e","m","a",")">>),
                 markComponent(t, st))
  ELSE IF Has(schema, "enum")
  THEN Result(IF schema.enum # <<>> THEN zEnumSchema(schema.enum) ELSE zUnknown, st)
  ELSE IF Has(schema, "const")
  THEN Result(Z(<<"z",".","l","i","t","e","r","a","l","(">>) \o LiteralType(schema.const) \o Z(<<")">>), st)
  ELSE IF Has(schema, "oneOf")
  THEN zodOfComposition(schema.oneOf, <<"z",".","u","n","i","o","n","(","[">>, <<"]",")">>, schema, st)
  ELSE IF Has(schema, "anyOf")
  THEN zodOfComposition(schema.anyOf, <<"z",".","u","n","i","o","n","(","[">>, <<"]",")">>, schema, st)
  ELSE IF Has(schema, "allOf")
  THEN zodOfComposition(schema.allOf, <<"z",".","i","n","t","e","r","s","e","c","t","i","o","n","(">>, <<")">>, schema, st)
  ELSE IF Has(schema, "typeList") THEN zodOfTypeList(schema, st)
  ELSE IF Has(schema, "type") /\ schema.type = <<"array">>
  THEN LET item == zodFromSchema(IF Has(schema, "items") THEN schema.items[1] ELSE Node0, st)
       IN Result(Z(<<"z",".","a","r","r","a","y","(">>) \o item.t \o Z(<<")">>), item.st)
  ELSE IF (Has(schema, "type") /\ schema.type = <<"object">>) \/ Has(schema, "properties")
  THEN zodOfObject(schema, st)
  ELSE Result(zPrimitive(schema), st)

\* lines 363-366: one variant per entry of the `type` array
zodVariants(schema, j, st) ==
  IF j > Len(schema.type) THEN [ts |-> <<>>, st |-> st]
  ELSE LET r == IF schema.type[j] = "null"
                THEN Result(Z(<<"z",".","n","u","l","l","(",")">>), st)
                ELSE zodFromSchema(WithType(schema, schema.type[j]), st)
           rest == zodVariants(schema, j + 1, r.st)
       IN [ts |-> <<r.t>> \o rest.ts, st |-> rest.st]

\* list.map((s) => zodFromSchema(s))
zodFromEach(list, st) ==
  IF list = <<>> THEN [ts |-> <<>>, st |-> st]
  ELSE LET r == zodFromSchema(Head(list), st)
           rest == zodFromEach(Tail(list), r.st)
       IN [ts |-> <<r.t>> \o rest.ts, st |-> rest.st]

\* `${JSON.stringify(k)}: ${zodFromSchema(v)}`, with .nullable() for a nullable v
zodProps(props, j, st) ==
  IF j > Len(props) THEN [ts |-> <<>>, st |-> st]
  ELSE LET r == zodFromSchema(props[j][2], st)
           rest == zodProps(props, j + 1, r.st)
           e == << Tk("prop", QuoteString(props[j][1])) >> \o << Tk("punct", <<":"," ">>) >> \o r.t
                \o (IF Has(props[j][2], "nullable") THEN Z(<<".","n","u","l","l","a","b","l","e","(",")">>) ELSE <<>>)
       IN [ts |-> <<e>> \o rest.ts, st |-> rest.st]

\* ------------------------------------------------- reachability from paths
RouteParamId(r, j) == <<3, r, 1, j>>
EntryId(r, e) == <<3, r, 5, e>>
OpParamId(r, e, j) == EntryId(r, e) \o <<2, j>>
RequestBodyId(r, e) == EntryId(r, e) \o <<3>>
ResponseId(r, e, k) == EntryId(r, e) \o <<4, k>>

\* for (const p of params) if (p.schema) markSchema(p.schema)
RECURSIVE markParams(_, _, _, _)
markParams(params, Id(_), j, st) ==
  IF j > Len(params) THEN st
  ELSE markParams(params, Id, j + 1,
                  IF params[j].schema # <<>>
                  THEN markSchema(params[j].schema[1], ParamSchemaId(Id(j)), st)
                  ELSE st)

RECURSIVE markResponses(_, _, _, _, _)
markResponses(responses, r, e, k, st) ==
  IF k > Len(responses) THEN st
  ELSE markResponses(responses, r, e, k + 1,
                     IF Has(responses[k][2], "content")
                     THEN markContent(responses[k][2], ResponseId(r, e, k), st)
                     ELSE st)

\* the path item of route r, and the value and the lower-cased key of its entry e
ItemAt(r) == openapi.paths[r][2]
OpAt(r, e) == openapi.paths[r][2].entries[e][2]
MethodOf(r, e) == toLowerCase(openapi.paths[r][2].entries[e][1])

\* lines 634-638
markOpParams(r, e, st) ==
  IF Has(OpAt(r, e), "parameters")
  THEN markParams(OpAt(r, e).parameters, LAMBDA j : OpParamId(r, e, j), 1, st)
  ELSE st
\* line 639
markRequestBody(r, e, st) ==
  IF Has(OpAt(r, e), "requestBody") /\ Has(OpAt(r, e).requestBody, "content")
  THEN markContent(OpAt(r, e).requestBody, RequestBodyId(r, e), st)
  ELSE st
\* lines 640-644
markOpResponses(r, e, st) ==
  IF Has(OpAt(r, e), "responses") THEN markResponses(OpAt(r, e).responses, r, e, 1, st)
  ELSE st
\* lines 627-645: the body of the inner loop for entry e of route r
markEntry(r, e, st) ==
  markOpResponses(r, e,
    markRequestBody(r, e,
      markOpParams(r, e,
        markParams(ItemAt(r).parameters, LAMBDA j : RouteParamId(r, j), 1, st))))

\* lines 625-646: one iteration of the outer loop
RECURSIVE markEntries(_, _, _)
markEntries(r, e, st) ==
  IF e > Len(openapi.paths[r][2].entries) THEN st
  ELSE markEntries(r, e + 1, markEntry(r, e, st))

\* -------------------------------------------------------- component types
\* lines 652-666: one iteration of the loop, for the i-th Named Definition.
\* out is [types, zods]: the entries of componentsOut and componentsZodOut.
SchemaSuffix == <<"S","c","h","e","m","a">>
IsUsedComponent(name, st) ==
  toTypeName(name) \in st.usedComponents \/ name \in st.usedComponents

\* `export type ${toTypeName(name)} = ${tsType};`
TypeEntry(name, t) == [key |-> name, name |-> toTypeName(name), type |-> t]
\* `export const ${toTypeName(name)}Schema = ${zodType};`
ZodEntry(name, zod) == [key |-> name, name |-> toTypeName(name) \o SchemaSuffix, zod |-> zod]

\* lines 653-660: an Enum Definition gets its validator only
emitEnumSchema(name, out, st) ==
  [types |-> out.types,
   zods |-> Append(out.zods, ZodEntry(name, zEnumSchema(EnumAt(name).values))),
   st |-> st]
\* an emission that leaves the validator of a definition out
emitTypeOnly(name, out, ts, zod) ==
  [types |-> Append(out.types, TypeEntry(name, ts.t)), zods |-> out.zods, st |-> zod.st]
\* lines 661-666
emitBoth(name, out, ts, zod) ==
  [types |-> Append(out.types, TypeEntry(name, ts.t)),
   zods |-> Append(out.zods, ZodEntry(name, zod.t)),
   st |-> zod.st]
emitTyped(i, out, ts) ==
  emitBoth(openapi.schemas[i][1], out, ts, zodFromSchema(openapi.schemas[i][2], ts.st))
emitDefinition(i, out, st) ==
  IF IsEnum(openapi.schemas[i][1]) THEN emitEnumSchema(openapi.schemas[i][1], out, st)
  ELSE emitTyped(i, out, typeFromSchema(openapi.schemas[i][2], SchemaId(i), st))

\* an emission loop that emits every Named Definition
emitComponentUngated(i, out, st) == emitDefinition(i, out, st)

\* lines 651-667
emitComponent(i, out, st) ==
  IF ~IsUsedComponent(openapi.schemas[i][1], st)
  THEN [types |-> out.types, zods |-> out.zods, st |-> st]
  ELSE emitDefinition(i, out, st)

\* ------------------------------------------------------------------- paths
httpMethods ==
  << <<"g","e","t">>, <<"p","u","t">>, <<"p","o","s","t">>, <<"d","e","l","e","t","e">>, <<"p","a","t","c","h">>, <<"o","p","t","i","o","n","s">>, <<"h","e","a","d">>, <<"t","r","a","c","e">> >>
IsHttpMethod(m) == \E i \in DOMAIN httpMethods : httpMethods[i] = m

order ==
  << "application/json", "application/merge-patch+json", "multipart/form-data",
     "application/x-www-form-urlencoded", "image/png" >>

Picked(t, ct, st) == [type |-> t, contentType |-> ct, st |-> st]
PickedAs(r, ct) == Picked(r.t, ct, r.st)
HasSchemaAt(content, i) == i # 0 /\ content[i][2].schema # <<>>

\* lines 679-681: the first entry of the document that has a schema
firstWithSchema(content) == FirstIndex(content, LAMBDA en : en[2].schema # <<>>)
\* a choice that takes the first entry of the document with a schema
pickIndexDocOrder(content) == firstWithSchema(content)
\* lines 675-678: the first content type of `order` whose entry has a schema
firstInOrder(content) ==
  FirstIndex(order, LAMBDA ct : HasSchemaAt(content, IndexOfKey(content, ct)))
OrderedOrFirst(o, content) ==
  IF o # 0 THEN IndexOfKey(content, order[o]) ELSE firstWithSchema(content)
\* the index of the entry pickContentType returns, 0 when it returns unknown
pickIndex(content) == OrderedOrFirst(firstInOrder(content), content)

pickAt(content, i, base, st) ==
  IF i # 0
  THEN PickedAs(typeFromSchema(content[i][2].schema[1], Append(base, i), st), content[i][1])
  ELSE Picked(tUnknown, "unknown", st)
\* lines 672-683; body.content is empty when there is no content map
pickContentType(body, base, st) == pickAt(body.content, pickIndex(body.content), base, st)

ParamGroups0 == [path |-> <<>>, query |-> <<>>, header |-> <<>>, cookie |-> <<>>]
Locations == {"path", "query", "header", "cookie"}

\* p.schema || (p.content && Object.values(p.content)[0]?.schema), as
\* <<position, schema>>, <<>> when there is none
ParamSchemaOf(p, base) ==
  IF p.schema # <<>> THEN <<ParamSchemaId(base), p.schema[1]>>
  ELSE IF p.content # <<>> /\ p.content[1][2].schema # <<>>
  THEN <<Append(ParamContentId(base), 1), p.content[1][2].schema[1]>>
  ELSE <<>>
\* schema ? typeFromSchema(schema) : "unknown"
paramTypeOf(ps, st) ==
  IF ps = <<>> THEN Result(tUnknown, st) ELSE typeFromSchema(ps[2], ps[1], st)
\* p.in || "path"
LocationOf(p) == IF Has(p, "in") /\ p.in # "" THEN p.in ELSE "path"
\* paramGroups[...]?.push(field)
AddParam(groups, in, field) ==
  IF in \in Locations THEN [groups EXCEPT ![in] = Append(@, field)] ELSE groups
Collected(p, groups, r) ==
  [groups |-> AddParam(groups, LocationOf(p),
                       [name |-> p.name, type |-> r.t, required |-> p.required]),
   st |-> r.st]
\* lines 697-702: collectParam(p) for the parameter found at position base
collectParam(p, base, groups, st) ==
  Collected(p, groups, paramTypeOf(ParamSchemaOf(p, base), st))

\* lines 709-711: the reusable parameter a reference resolves to, if any
collectResolved(i, groups, st) ==
  IF i # 0 THEN collectParam(openapi.parameters[i][2], <<2, i>>, groups, st)
  ELSE [groups |-> groups, st |-> st]
\* lines 708-714, for one <<position, parameter>> of mergedParams
collectOne(pp, groups, st) ==
  IF Has(pp[2], "$ref")
  THEN collectResolved(IndexOfKey(openapi.parameters, pp[2].ref[Len(pp[2].ref)]), groups, st)
  ELSE collectParam(pp[2], pp[1], groups, st)
\* lines 707-714 on mergedParams
RECURSIVE collectParams(_, _, _)
ParamThen(r, merged) == collectParams(Tail(merged), r.groups, r.st)
collectParams(merged, groups, st) ==
  IF merged = <<>> THEN [groups |-> groups, st |-> st]
  ELSE ParamThen(collectOne(Head(merged), groups, st), merged)

\* a merge that drops the inherited (route-level) parameters
mergedParamsOwn(r, e) ==
  [j \in DOMAIN OpAt(r, e).parameters |-> <<OpParamId(r, e, j), OpAt(r, e).parameters[j]>>]

\* lines 704-705: [...inheritedParams, ...op.parameters]
mergedParams(r, e) ==
  [j \in DOMAIN ItemAt(r).parameters |-> <<RouteParamId(r, j), ItemAt(r).parameters[j]>>]
  \o [j \in DOMAIN OpAt(r, e).parameters |-> <<OpParamId(r, e, j), OpAt(r, e).parameters[j]>>]

\* lines 731-739
RECURSIVE projectResponses(_, _, _, _, _)
ConsList(x, rest) == [list |-> <<x>> \o rest.list, st |-> rest.st]
ResponseThen(p, responses, r, e, k) ==
  ConsList([code |-> responses[k][1], type |-> p.type, contentType |-> p.contentType],
           projectResponses(responses, r, e, k + 1, p.st))
projectResponses(responses, r, e, k, st) ==
  IF k > Len(responses) THEN [list |-> <<>>, st |-> st]
  ELSE ResponseThen(IF Has(responses[k][2], "content")
                    THEN pickContentType(responses[k][2], ResponseId(r, e, k), st)
                    ELSE Picked(tUnknown, "unknown", st),
                    responses, r, e, k)

\* n.split(/_+/).filter(Boolean)
RECURSIVE SplitUnderscore(_, _)
SplitUnderscore(n, part) ==
  IF n = <<>> THEN (IF part = <<>> THEN <<>> ELSE <<part>>)
  ELSE IF Head(n) = "_"
  THEN (IF part = <<>> THEN <<>> ELSE <<part>>) \o SplitUnderscore(Tail(n), <<>>)
  ELSE SplitUnderscore(Tail(n), Append(part, Head(n)))
\* lines 90-97
toPascal(n) ==
  LET parts == SplitUnderscore(toTypeName(n), <<>>)
  IN Flatten([i \in DOMAIN parts |-> <<toUpperChar(parts[i][1])>> \o Tail(parts[i])])

tUndefined == PrimType(<<"u","n","d","e","f","i","n","e","d">>)

\* lines 741-753: the three aliases of an operation that has an operationId
AliasesNamed(n, route, m) ==
  << [name |-> n \o <<"P","a","r","a","m","s">>, route |-> route, m |-> m],
     [name |-> n \o <<"R","e","q","u","e","s","t","B","o","d","y">>, route |-> route, m |-> m],
     [name |-> n \o <<"R","e","s","p","o","n","s","e","s">>, route |-> route, m |-> m] >>
aliasesOf(r, e) ==
  IF OpAt(r, e).operationId # <<>>
  THEN AliasesNamed(toPascal(OpAt(r, e).operationId), openapi.paths[r][1], MethodOf(r, e))
  ELSE <<>>

\* lines 729-739 and 755-764, after the request body
projectedWith(r, e, groups, request, responses) ==
  [method |-> [m |-> MethodOf(r, e), parameters |-> groups, requestBody |-> request.type,
               requestContentType |-> request.contentType, responses |-> responses.list],
   aliases |-> aliasesOf(r, e),
   st |-> responses.st]
afterRequest(r, e, groups, request) ==
  projectedWith(r, e, groups, request,
                IF Has(OpAt(r, e), "responses")
                THEN projectResponses(OpAt(r, e).responses, r, e, 1, request.st)
                ELSE [list |-> <<>>, st |-> request.st])
\* lines 729-730, after the parameters
afterParams(r, e, params) ==
  afterRequest(r, e, params.groups,
               IF Has(OpAt(r, e), "requestBody")
               THEN pickContentType(OpAt(r, e).requestBody, RequestBodyId(r, e), params.st)
               ELSE Picked(tUndefined, "unknown", params.st))
\* lines 690-764: the operation under entry e of route r; called only for an
\* entry whose lower-cased key is an HTTP method
projectOperation(r, e, st) ==
  afterParams(r, e, collectParams(mergedParams(r, e), ParamGroups0, st))

\* a push without the includes test
PushRouteAlways(list, m, route) == [list EXCEPT ![m] = Append(@, route)]
\* line 693: if (!pathsListMap[m].includes(route)) pathsListMap[m].push(route)
PushRoute(list, m, route) ==
  [list EXCEPT ![m] = IF \E i \in DOMAIN @ : @[i] = route THEN @ ELSE Append(@, route)]
\* lines 688-767: one iteration of the outer loop, entries e.. of route r; acc
\* is [methods, aliases, list]
RECURSIVE projectEntries(_, _, _, _)
OperationThen(p, r, e, acc) ==
  projectEntries(r, e + 1,
                 [methods |-> Append(acc.methods, p.method),
                  aliases |-> acc.aliases \o p.aliases,
                  list |-> PushRoute(acc.list, MethodOf(r, e), openapi.paths[r][1])],
                 p.st)
projectEntries(r, e, acc, st) ==
  IF e > Len(ItemAt(r).entries)
  THEN [methods |-> acc.methods, aliases |-> acc.aliases, list |-> acc.list, st |-> st]
  ELSE IF ~IsHttpMethod(MethodOf(r, e)) THEN projectEntries(r, e + 1, acc, st)
  ELSE OperationThen(projectOperation(r, e, st), r, e, acc)

\* ---------------------------------------------------------------- assembly
\* lines 184-196: the declaration printEnum writes (comments left out)
printEnum(key, e) ==
  [key |-> key, name |-> toTypeName(key),
   members |-> [i \in DOMAIN e.values |->
                  [key |-> enumKey(e.varnames[i]), value |-> JsonStringify(e.values[i])]]]

\* lines 784-789: the object the runtime module exports for an enum
printEnumJs(key, e) ==
  [key |-> key, name |-> toTypeName(key),
   members |-> [i \in DOMAIN e.values |->
                  [key |-> safeKey(e.varnames[i]), value |-> JsonStringify(e.values[i])]]]

\* an enum section that declares the used enums only
enumSectionUsedOnly(used) ==
  LET kept == SelectSeq(enums, LAMBDA en : en[1] \in used)
  IN [i \in DOMAIN kept |-> printEnum(kept[i][1], kept[i][2])]

\* lines 782-783: if (!usedEnums.size || usedEnums.has(k)) output += printEnum(k, v)
enumSection(used) ==
  LET kept == SelectSeq(enums, LAMBDA en : used = {} \/ en[1] \in used)
  IN [i \in DOMAIN kept |-> printEnum(kept[i][1], kept[i][2])]

\* lines 770-777: the methods that have routes, in httpMethods order
pathsListOf(map) ==
  LET kept == SelectSeq(httpMethods, LAMBDA m : map[m] # <<>>)
  IN [i \in DOMAIN kept |-> <<kept[i], map[kept[i]]>>]

\* lines 796-803: the list the runtime module exports, built by its own loop
pathsListJsOf(map) ==
  LET kept == SelectSeq(httpMethods, LAMBDA m : map[m] # <<>>)
  IN [i \in DOMAIN kept |-> <<kept[i], map[kept[i]]>>]

Output0 ==
  [enums |-> <<>>, components |-> <<>>, paths |-> <<>>, pathsList |-> <<>>, aliases |-> <<>>]
OutputJs0 == [enums |-> <<>>, pathsList |-> <<>>]

\* ----------------------------------------------------------------- actions
\* The tables of build() as one record, and back.  fuel is what is left of the
\* document's node count after the expansions logged so far.
St ==
  [usedComponents |-> usedComponents, usedEnums |-> usedEnums, visited |-> visited,
   schemaCache |-> schemaCache, walkLog |-> walkLog, overrun |-> overrun,
   fuel |-> NodeCount(openapi) - Len(walkLog), depth |-> 0,
   limit |-> 2 * TreeDepth(openapi) + 2]

Commit(st) ==
  /\ usedComponents' = st.usedComponents
  /\ usedEnums' = st.usedEnums
  /\ visited' = st.visited
  /\ schemaCache' = st.schemaCache
  /\ walkLog' = st.walkLog
  /\ overrun' = st.overrun

\* the sections of build() in order, and the first one after `section` that
\* has something to do
HasWork(section) ==
  IF section = "mark" \/ section = "paths" THEN openapi.paths # <<>>
  ELSE IF section = "emit" THEN openapi.schemas # <<>>
  ELSE TRUE
After(section) ==
  IF section = "enums" THEN (IF HasWork("mark") THEN "mark" ELSE IF HasWork("emit") THEN "emit" ELSE "assemble")
  ELSE IF section = "mark" THEN (IF HasWork("emit") THEN "emit" ELSE "paths")
  ELSE IF section = "emit" THEN (IF HasWork("paths") THEN "paths" ELSE "assemble")
  ELSE IF section = "paths" THEN "assemble"
  ELSE "done"
\* the loop of `section` moves on after iteration idx of n
Advance(section, n) ==
  IF idx < n THEN pc' = section /\ idx' = idx + 1
  ELSE pc' = After(section) /\ idx' = 1

\* lines 155-178
CollectEnums ==
  /\ pc = "enums"
  /\ enums' = collectEnums(openapi.schemas)
  /\ pc' = After("enums")
  /\ UNCHANGED <<openapi, idx, usedComponents, usedEnums, visited, schemaCache, walkLog,
                 overrun, componentsOut, componentsZodOut, pathsOut, pathsListMap,
                 operationAliasesOut, output, outputJs>>

\* lines 625-646, one route
MarkPath ==
  /\ pc = "mark"
  /\ Commit(markEntries(idx, 1, St))
  /\ Advance("mark", Len(openapi.paths))
  /\ UNCHANGED <<openapi, enums, componentsOut, componentsZodOut, pathsOut, pathsListMap,
                 operationAliasesOut, output, outputJs>>

\* lines 651-667, one Named Definition
Emitted(r) ==
  /\ componentsOut' = r.types
  /\ componentsZodOut' = r.zods
  /\ Commit(r.st)
EmitComponent ==
  /\ pc = "emit"
  /\ Emitted(emitComponent(idx, [types |-> componentsOut, zods |-> componentsZodOut], St))
  /\ Advance("emit", Len(openapi.schemas))
  /\ UNCHANGED <<openapi, enums, pathsOut, pathsListMap, operationAliasesOut, output, outputJs>>

\* lines 688-767, one route
Projected(r) ==
  /\ pathsOut' = Append(pathsOut, [route |-> openapi.paths[idx][1], methods |-> r.methods])
  /\ operationAliasesOut' = operationAliasesOut \o r.aliases
  /\ pathsListMap' = r.list
  /\ Commit(r.st)
ProjectPath ==
  /\ pc = "paths"
  /\ Projected(projectEntries(idx, 1,
                 [methods |-> <<>>, aliases |-> <<>>, list |-> pathsListMap], St))
  /\ Advance("paths", Len(openapi.paths))
  /\ UNCHANGED <<openapi, enums, componentsOut, componentsZodOut, output, outputJs>>

\* lines 770-803
Assemble ==
  /\ pc = "assemble"
  /\ output' = [enums |-> enumSection(usedEnums), components |-> componentsOut,
                paths |-> pathsOut, pathsList |-> pathsListOf(pathsListMap),
                aliases |-> operationAliasesOut]
  /\ outputJs' = [enums |-> [i \in DOMAIN enums |-> printEnumJs(enums[i][1], enums[i][2])],
                  pathsList |-> pathsListJsOf(pathsListMap)]
  /\ pc' = "done"
  /\ UNCHANGED <<openapi, idx, enums, usedComponents, usedEnums, visited, schemaCache,
                 walkLog, overrun, componentsOut, componentsZodOut, pathsOut, pathsListMap,
                 operationAliasesOut>>

\* --------------------------------------------------------- input documents
\* The documents explored.  Each family varies one part of a document and
\* keeps the rest small.
nA == <<"A">>
nB == <<"B">>
nZ == <<"Z">>
nX == <<"X">>
nY == <<"Y">>
nP == <<"P">>
nE == <<"E">>
nKind == <<"K","i","n","d">>
nDashed == <<"A","-","B">>
nMissing == <<"M","i","s","s","i","n","g">>

\* the sequences of distinct elements of S of length lo..hi
InjSeqs(S, lo, hi) ==
  UNION { { s \in [1..k -> S] : \A i, j \in 1..k : i # j => s[i] # s[j] } : k \in lo..hi }
Perms(seq) == { [i \in DOMAIN seq |-> seq[p[i]]] : p \in InjSeqs(DOMAIN seq, Len(seq), Len(seq)) }

Json(node) == WithContent(<< <<"application/json", Entry(<<node>>)>> >>)
Ok(body) == << <<"200", body>> >>
Get(op) == << <<"g","e","t">>, op >>
Post(op) == << <<"p","o","s","t">>, op >>
Responding(node) == OpWith(<<>>, <<>>, Ok(Json(node)))
OneRoute(item) == << <<"/a", item>> >>
JustGet(op) == OneRoute(PathItem(<<>>, << Get(op) >>))

\* an object with one property per name of the list, each a reference
PropsOf(names) ==
  Obj([j \in DOMAIN names |-> <<toLowerCase(toTypeName(names[j])), RefTo(names[j])>>])

\* (1) reference graphs over A, B, Z: every choice of at most MaxRefs
\* references per definition; the operation responds with A
GraphNames == <<nA, nB, nZ>>
RefSets == { S \in SUBSET Range(GraphNames) : Cardinality(S) <= MaxRefs }
PropsTo(S) == PropsOf(SelectSeq(GraphNames, LAMBDA n : n \in S))
GraphDocs ==
  { Doc(<< <<nA, PropsTo(sa)>>, <<nB, PropsTo(sb)>>, <<nZ, PropsTo(sz)>> >>, <<>>,
        JustGet(Responding(RefTo(nA)))) : sa \in RefSets, sb \in RefSets, sz \in RefSets }

\* (2) every keyword markSchema walks through, around a reference A -> B
Wrappers ==
  {"oneOf", "anyOf", "allOf", "items", "additionalProperties", "not", "then", "else", "nested"}
Wrap(w, n) ==
  IF w = "oneOf" THEN OneOf(<<n, Prim("string")>>)
  ELSE IF w = "anyOf" THEN AnyOf(<<Prim("null"), n>>)
  ELSE IF w = "allOf" THEN AllOf(<<n, Obj(<<>>)>>)
  ELSE IF w = "items" THEN Arr(n)
  ELSE IF w = "additionalProperties"
  THEN [Node0 EXCEPT !.keys = {"type", "additionalProperties"}, !.type = <<"object">>,
                     !.additionalProperties = <<n>>]
  ELSE IF w = "not" THEN [Node0 EXCEPT !.keys = {"not"}, !.nott = <<n>>]
  ELSE IF w = "then" THEN [Node0 EXCEPT !.keys = {"then"}, !.thenn = <<n>>]
  ELSE IF w = "else" THEN [Node0 EXCEPT !.keys = {"else"}, !.elsee = <<n>>]
  ELSE Arr(Obj(<< <<<<"x">>, OneOf(<<n, Prim("null")>>)>> >>))
WrapDocs ==
  { Doc(<< <<nA, Wrap(w, RefTo(nB))>>, <<nB, b>>, <<nZ, Prim("string")>> >>, <<>>,
        JustGet(Responding(RefTo(nA)))) :
      w \in Wrappers, b \in {PropsTo({nA}), Prim("integer")} }

\* (3) the places of a document a schema is used from
BaseSchemas ==
  { << <<nA, PropsTo({nB})>>, <<nB, Prim("string")>>, <<nZ, Prim("integer")>> >>,
    << <<nZ, Prim("integer")>>, <<nA, PropsTo({nA})>> >> }
ReusableParameters == << <<nP, SchemaParam(<<"p">>, "query", TRUE, RefTo(nA))>> >>
Multipart(node) == WithContent(<< <<"multipart/form-data", Entry(<<node>>)>> >>)
RootPaths ==
  { JustGet(OpWith(<<>>, <<>>, Ok(Multipart(RefTo(nA))))),
    JustGet(OpWith(<<>>, <<Json(RefTo(nA))>>, <<>>)),
    JustGet(OpWith(<<>>, <<Body0>>, Ok(Body0))),
    JustGet(OpWith(<<SchemaParam(<<"q">>, "query", FALSE, RefTo(nA))>>, <<>>, <<>>)),
    OneRoute(PathItem(<<SchemaParam(<<"i","d">>, "path", TRUE, RefTo(nA))>>, << Get(Op0) >>)),
    JustGet(OpWith(<<RefParam(nP)>>, <<>>, <<>>)),
    OneRoute(PathItem(<<RefParam(nP)>>, << Get(Op0) >>)),
    << <<"/a", PathItem(<<SchemaParam(<<"i","d">>, "path", TRUE, RefTo(nZ))>>, <<>>)>>,
       <<"/b", PathItem(<<>>, << Get(Responding(RefTo(nA))) >>)>> >>,
    JustGet(OpWith(<<>>, <<>>,
                   Ok(WithContent(<< <<"multipart/form-data", Entry(<<RefTo(nZ)>>)>>,
                                     <<"application/json", Entry(<<RefTo(nA)>>)>> >>)))),
    JustGet(OpWith(<<ContentParam(<<"q">>, "query",
                                  << <<"application/json", Entry(<<RefTo(nA)>>)>> >>)>>,
                   <<>>, <<>>)),
    OneRoute(PathItem(<<>>, << <<<<"x","-","o","p">>, Responding(RefTo(nZ))>>,
                               Get(Responding(RefTo(nA))) >>)),
    OneRoute(PathItem(<<>>, << <<<<"G","E","T">>, Responding(RefTo(nA))>> >>)),
    OneRoute(PathItem(<<>>, << Get(Responding(RefTo(nA))),
                               <<<<"G","E","T">>, Responding(Prim("string"))>> >>)),
    JustGet(Responding(Prim("string"))),
    JustGet(Responding(RefTo(nMissing))),
    OneRoute(PathItem(<<>>, << Get([Responding(RefTo(nA)) EXCEPT !.operationId = <<"g","e","t","_","a","-","t","h","i","n","g">>]),
                               Post(Responding(Arr(RefTo(nA)))) >>)),
    << <<"/a", PathItem(<<>>, << Get(Responding(RefTo(nA))) >>)>>,
       <<"/b", PathItem(<<>>, << Get(Responding(RefTo(nZ))),
                                 Post(Responding(RefTo(nA))) >>)>> >> }
RootDocs == { Doc(s, ReusableParameters, p) : s \in BaseSchemas, p \in RootPaths }

\* (4) a Named Definition whose name is not an identifier
NameDocs ==
  { Doc(s, <<>>, JustGet(Responding(RefTo(n)))) :
      s \in { << <<nA, PropsOf(<<nDashed>>)>>, <<nDashed, PropsOf(<<nZ>>)>>,
                 <<nZ, Prim("string")>> >>,
              << <<nZ, Prim("string")>>, <<nA, PropsOf(<<nDashed>>)>>,
                 <<nDashed, PropsOf(<<nZ>>)>> >> },
      n \in {nA, nDashed} }


\* (5) two Enum Definitions, in either encoding, and an object with one inline
\* `enum` or `const` property
v1 == Num(<<"1">>)
v2 == Num(<<"2">>)
va == Str(<<"a">>)
Values == {v1, v2, va}
EnumSeqs == InjSeqs(Values, 1, MaxEnumLen)
MemberNames(vals) == [i \in DOMAIN vals |-> <<"M">> \o vals[i][2]]
EnumDef(vals) == [EnumNode(vals) EXCEPT !.keys = @ \cup {"type"}, !.type = <<"integer">>]
OneOfConstDef(vals) == OneOf([i \in DOMAIN vals |-> TitledConst(vals[i], MemberNames(vals)[i])])
Encoded(enc, vals) ==
  IF enc = "enum" THEN EnumDef(vals)
  ELSE IF enc = "varnames" THEN WithVarnames(EnumDef(vals), MemberNames(vals))
  ELSE OneOfConstDef(vals)
EnumNamePairs == { <<nE, nKind>>, <<CommandOptionType, nKind>>, <<nKind, CommandOptionType>> }
Inlines == { EnumNode(s) : s \in EnumSeqs } \cup { ConstNode(v) : v \in Values }
EnumDocs ==
  { Doc(<< <<pair[1], Encoded(enc, vals)>>,
           <<pair[2], Encoded("varnames", second)>>,
           <<nX, Obj(<< <<<<"f">>, inline>> >>)>> >>, <<>>,
        JustGet(Responding(RefTo(nX)))) :
      pair \in EnumNamePairs, enc \in {"enum", "oneOf"}, vals \in EnumSeqs,
      second \in { <<v2>>, <<v1, v2>> }, inline \in Inlines }

\* (6) content maps of at most MaxContent content types, each entry with or
\* without a schema, as the response and as the request body of an operation
ContentTypes ==
  << "application/json", "application/merge-patch+json", "multipart/form-data",
     "application/x-www-form-urlencoded", "application/octet-stream", "image/png",
     "text/plain" >>
ContentSchema(k) ==
  IF k = 1 THEN RefTo(nA)
  ELSE IF k = 2 THEN RefTo(nB)
  ELSE IF k = 3 THEN Prim("string")
  ELSE IF k = 4 THEN Prim("integer")
  ELSE IF k = 5 THEN Prim("boolean")
  ELSE IF k = 6 THEN Prim("null")
  ELSE Arr(Prim("string"))
ContentMaps ==
  UNION { { [j \in DOMAIN s |->
               << ContentTypes[s[j]],
                  Entry(IF j \in F THEN <<ContentSchema(s[j])>> ELSE <<>>) >>] :
            F \in SUBSET DOMAIN s } :
          s \in InjSeqs(DOMAIN ContentTypes, 1, MaxContent) }
ContentSchemas0 == << <<nA, Prim("string")>>, <<nB, Prim("integer")>> >>
ContentDocs ==
  { Doc(ContentSchemas0, <<>>, JustGet(OpWith(<<>>, <<>>, Ok(WithContent(c))))) :
      c \in ContentMaps }
  \cup
  { Doc(ContentSchemas0, <<>>, JustGet(OpWith(<<>>, <<WithContent(c)>>, <<>>))) :
      c \in { m \in ContentMaps : Len(m) = 1 } }

\* (7) route-level parameters (at most MaxRouteParams) under two operations,
\* one of which declares a parameter of its own
ParamPool ==
  { SchemaParam(<<"i","d">>, "path", TRUE, Prim("string")),
    SchemaParam(<<"q">>, "query", FALSE, RefTo(nA)),
    SchemaParam(<<"h">>, "header", FALSE, Prim("string")),
    SchemaParam(<<"c">>, "cookie", TRUE, Prim("boolean")),
    SchemaParam(<<"b">>, "body", TRUE, Prim("string")),
    NoInParam(<<"n">>, Prim("integer")),
    RefParam(nP),
    RefParam(nMissing) }
OwnParams ==
  { <<>>,
    << SchemaParam(<<"i","d">>, "path", FALSE, Prim("integer")) >>,
    << SchemaParam(<<"q">>, "header", TRUE, Prim("integer")) >>,
    << SchemaParam(<<"z">>, "query", FALSE, Prim("boolean")) >> }
ParamDocs ==
  { Doc(<< <<nA, Prim("string")>> >>, ReusableParameters,
        OneRoute(PathItem(route, << Get(OpWith(own, <<>>, <<>>)), Post(Op0) >>))) :
      route \in InjSeqs(ParamPool, 0, MaxRouteParams), own \in OwnParams }

\* (8) documents without any path
EmptyDocs ==
  { Doc(s, <<>>, <<>>) :
      s \in { <<>>,
              << <<nA, PropsTo({nB})>>, <<nB, Prim("string")>> >>,
              << <<nE, EnumDef(<<v1, v2>>)>>, <<nX, PropsOf(<<nE>>)>> >>,
              << <<nX, Obj(<< <<<<"f">>, EnumNode(<<v1, v2>>)>> >>)>>,
                 <<nE, OneOfConstDef(<<v1, v2>>)>>, <<nKind, EnumDef(<<va>>)>> >> } }

\* (9) an Enum Definition among plain ones, in every document order
OrderDocs ==
  { Doc(s, <<>>, JustGet(Responding(RefTo(nX)))) :
      s \in Perms(<< <<nX, PropsOf(<<nE, nY>>)>>, <<nE, EnumDef(<<v1, v2>>)>>,
                     <<nY, Prim("string")>>, <<nKind, EnumDef(<<va>>)>> >>) }

\* (10) a literal (`const`, or an `enum` list) beside an allOf that refers to
\* the enum E, as a property, as the items of an array and as a response, with
\* another enum declared before or after E
Literal3 == EnumNode(<<v1, v2>>)
LiteralNodes == { ConstNode(v1), EnumNode(<<v1>>), Literal3, ConstNode(va) }
Placed(place, node) ==
  IF place = "property" THEN Responding(Obj(<< <<<<"f">>, node>> >>))
  ELSE IF place = "type" THEN Responding(Obj(<< <<<<"t","y","p","e">>, node>> >>))
  ELSE IF place = "items" THEN Responding(Arr(node))
  ELSE Responding(node)
AllOfDocs ==
  { Doc(s, <<>>, JustGet(Placed(place, WithAllOf(lit, << RefTo(nE) >>)))) :
      s \in UNION { Perms(<< <<nE, WithVarnames(EnumDef(<<v1, v2, va>>), MemberNames(<<v1, v2, va>>))>>,
                             <<nKind, WithVarnames(EnumDef(k), MemberNames(k))>> >>) :
                     k \in { <<v1, v2>>, <<v2>> } },
      place \in {"property", "type", "items", "response"},
      lit \in LiteralNodes }

\* (11) a definition whose `type` is a list of at most MaxTypes types, with
\* or without `properties` and `items`
ListedTypes == {"string", "integer", "null", "object", "array"}
Shapes == SUBSET {"properties", "items"}
Shaped(node, shape) ==
  [node EXCEPT !.keys = @ \cup shape,
               !.properties = IF "properties" \in shape
                              THEN << <<<<"f">>, Prim("string")>> >> ELSE <<>>,
               !.items = IF "items" \in shape THEN << Prim("boolean") >> ELSE <<>>]
TypeListDocs ==
  { Doc(<< <<nX, Shaped(TypeList(ts), shape)>> >>, <<>>, JustGet(Responding(RefTo(nX)))) :
      ts \in InjSeqs(ListedTypes, 1, MaxTypes), shape \in Shapes }

Documents ==
  TypeListDocs \cup GraphDocs \cup WrapDocs \cup RootDocs \cup NameDocs \cup EnumDocs \cup ContentDocs
  \cup ParamDocs \cup EmptyDocs \cup OrderDocs \cup AllOfDocs

\* ------------------------------------------------------------ the behaviour
Init ==
  /\ openapi \in Documents
  /\ pc = "enums"
  /\ idx = 1
  /\ enums = <<>>
  /\ usedComponents = {}
  /\ usedEnums = {}
  /\ visited = {}
  /\ schemaCache = <<>>
  /\ walkLog = <<>>
  /\ overrun = FALSE
  /\ componentsOut = <<>>
  /\ componentsZodOut = <<>>
  /\ pathsOut = <<>>
  /\ pathsListMap = [m \in Range(httpMethods) |-> <<>>]
  /\ operationAliasesOut = <<>>
  /\ output = Output0
  /\ outputJs = OutputJs0

Next ==
  \/ CollectEnums
  \/ MarkPath
  \/ EmitComponent
  \/ ProjectPath
  \/ Assemble

Spec == Init /\ [][Next]_vars


\* ------------------------------------------------------------- reachability
\* The reference graph of a document, read off the document alone.
RefName(s) == s.ref[Len(s.ref)]
\* the names a schema refers to, at any depth below it
RECURSIVE RefsIn(_)
RefsIn(s) ==
  (IF Has(s, "$ref") THEN {RefName(s)} ELSE {})
  \cup UNION {RefsIn(c[2]) : c \in Range(Children(s))}
Declared(d) == {d.schemas[i][1] : i \in DOMAIN d.schemas}
BodyOf(d, n) == d.schemas[IndexOfKey(d.schemas, n)][2]
\* the names referred to by the bodies of the declared names of S
Step(d, S) == S \cup UNION {RefsIn(BodyOf(d, n)) : n \in S \cap Declared(d)}
RECURSIVE Closure(_, _)
Closure(d, S) == IF Step(d, S) = S THEN S ELSE Closure(d, Step(d, S))

\* the parameter a parameter entry stands for: itself, or the reusable
\* parameter it refers to (none when the reference does not resolve)
Resolved(d, p) ==
  IF ~Has(p, "$ref") THEN {p}
  ELSE IF HasKey(d.parameters, RefName(p))
  THEN {d.parameters[IndexOfKey(d.parameters, RefName(p))][2]}
  ELSE {}
SchemasOf(roots) == {x[2] : x \in Range(roots)}
ParamSchemas(d, params) ==
  UNION {SchemasOf(ParamRoots(q, <<>>)) :
           q \in UNION {Resolved(d, p) : p \in Range(params)}}
\* the schemas an entry of a path item uses: its own and the route-level
\* parameters, its request body and its responses
EntrySchemas(d, r, e) ==
  ParamSchemas(d, d.paths[r][2].parameters)
  \cup ParamSchemas(d, d.paths[r][2].entries[e][2].parameters)
  \cup SchemasOf(BodyRoots(d.paths[r][2].entries[e][2].requestBody, <<>>))
  \cup UNION {SchemasOf(BodyRoots(x[2], <<>>)) :
                x \in Range(d.paths[r][2].entries[e][2].responses)}
Entries(d) ==
  UNION {{<<r, e>> : e \in DOMAIN d.paths[r][2].entries} : r \in DOMAIN d.paths}
\* an Operation: an entry whose key names an HTTP method
Operations(d) ==
  {re \in Entries(d) : IsHttpMethod(toLowerCase(d.paths[re[1]][2].entries[re[2]][1]))}
HasOperation(d) == Operations(d) # {}
RefsOfAll(nodes) == UNION {RefsIn(n) : n \in nodes}
\* the Named Definitions reachable from the operations of the document
Reachable(d) ==
  Closure(d, RefsOfAll(UNION {EntrySchemas(d, re[1], re[2]) : re \in Operations(d)}))
\* the names reachable from every entry of every path item and from the
\* route-level parameters of every route
ReachableFromPaths(d) ==
  Closure(d, RefsOfAll(UNION {EntrySchemas(d, re[1], re[2]) : re \in Entries(d)})
             \cup RefsOfAll(UNION {ParamSchemas(d, d.paths[r][2].parameters) : r \in DOMAIN d.paths}))
NodeAt(d, id) == (CHOOSE x \in Range(AllNodes(d)) : x[1] = id)[2]
TargetId(d, s) == SchemaId(IndexOfKey(d.schemas, RefName(s)))
EmittedTypes == {componentsOut[i].key : i \in DOMAIN componentsOut}
EmittedSchemas == {componentsZodOut[i].key : i \in DOMAIN componentsZodOut}
EmissionStarts == pc = "emit" /\ idx = 1

\* C1: when the component pass starts, every Named Definition reachable from
\* an operation (own and route-level parameters, parameters given as references
\* to reusable parameters, request bodies, responses, and references followed
\* transitively) passes the gate of the component pass, and the target of every
\* reference the marking walk met has been walked too.
C1_ReachabilityComplete ==
  EmissionStarts =>
    /\ \A n \in Reachable(openapi) \cap Declared(openapi) :
         toTypeName(n) \in usedComponents \/ n \in usedComponents
    /\ \A x \in Range(AllNodes(openapi)) :
         (x[1] \in visited /\ Has(x[2], "$ref") /\ RefName(x[2]) \in Declared(openapi))
           => TargetId(openapi, x[2]) \in visited

\* ------------------------------------------------------------------ C2
\* every definition name is an identifier already
PlainNames(d) == \A n \in Declared(d) : toTypeName(n) = n
\* every entry of every path item is an operation without parameters and
\* request body, and every response carries one application/json schema
OnlyJsonResponses(d) ==
  /\ \A r \in DOMAIN d.paths : d.paths[r][2].parameters = <<>>
  /\ Entries(d) = Operations(d)
  /\ \A re \in Entries(d) :
       /\ d.paths[re[1]][2].entries[re[2]][2].parameters = <<>>
       /\ d.paths[re[1]][2].entries[re[2]][2].requestBody = Body0
       /\ \A x \in Range(d.paths[re[1]][2].entries[re[2]][2].responses) :
            Len(x[2].content) = 1 /\ x[2].content[1][1] = "application/json"
EnumNames == {enums[i][1] : i \in DOMAIN enums}

\* C2: for a document with at least one operation, no Named
\* Definition outside the set reachable from the operations is emitted to
\* either module.
C2_MinimalityFromOperations ==
  HasOperation(openapi) => (EmittedTypes \cup EmittedSchemas) \subseteq Reachable(openapi)

\* What the component pass does guarantee: for a document with at least one
\* operation, every Named Definition emitted to either module is reachable
\* from an entry of a path item (operation or not) or from the route-level
\* parameters of a route; and when the document uses schemas
\* in application/json responses only and its names are identifiers, the
\* validators emitted are exactly those of the definitions reachable from the
\* operations, and the types exactly those of them that are not enums.
EmittedWithinPaths ==
  HasOperation(openapi) =>
    /\ (EmittedTypes \cup EmittedSchemas) \subseteq ReachableFromPaths(openapi)
    /\ (pc = "done" /\ OnlyJsonResponses(openapi) /\ PlainNames(openapi)) =>
         /\ EmittedSchemas = Reachable(openapi) \cap Declared(openapi)
         /\ EmittedTypes = (Reachable(openapi) \cap Declared(openapi)) \ EnumNames
\* one operation uses A, A refers to B only, Z is declared and not referred to:
\* exactly A and B are emitted
ExactlyReachableEmitted ==
  /\ pc = "done"
  /\ OnlyJsonResponses(openapi)
  /\ Reachable(openapi) = {nA, nB}
  /\ nZ \in Declared(openapi)
  /\ EmittedTypes = {nA, nB}
  /\ EmittedSchemas = {nA, nB}

\* ------------------------------------------------------------------ C3
NoDuplicates(s) == \A i, j \in DOMAIN s : i # j => s[i] # s[j]
\* the definition at index i refers, directly or through others, to itself
OnCycle(d, i) == d.schemas[i][1] \in Closure(d, RefsIn(d.schemas[i][2]))

\* C3: markSchema expands each schema node at most once, whatever cycles the
\* reference graph has: the walk never expands more nodes than the document
\* holds, and the nodes it expanded are the visited set.
C3_WalkTerminates ==
  /\ NoDuplicates(walkLog)
  /\ Len(walkLog) <= NodeCount(openapi)
  /\ Range(walkLog) = visited
  /\ ~overrun
\* the marking pass is over and it walked a definition that lies on a cycle
C3_Witness ==
  /\ EmissionStarts
  /\ \E i \in DOMAIN openapi.schemas : SchemaId(i) \in visited /\ OnCycle(openapi, i)

\* ------------------------------------------------------------------ C4
\* C4: typeFromSchema renders a reference node as the sanitized name of the
\* definition it refers to and does not render the body of the target: the
\* only definition bodies rendered are those of the definitions emitted, and
\* no rendering nests deeper than the document.
C4_ReferenceNominal ==
  /\ ~overrun
  /\ \A id \in DOMAIN schemaCache :
       /\ Has(NodeAt(openapi, id), "$ref") =>
            schemaCache[id] = NameType(RefName(NodeAt(openapi, id)))
       /\ id[1] = 1 => openapi.schemas[id[2]][1] \in EmittedTypes
\* a definition that refers to itself has been emitted, its reference rendered
C4_Witness ==
  /\ pc = "done"
  /\ \E id \in DOMAIN schemaCache :
       /\ id[1] = 1
       /\ Len(id) > 2
       /\ Has(NodeAt(openapi, id), "$ref")
       /\ RefName(NodeAt(openapi, id)) = openapi.schemas[id[2]][1]

\* the two faces of the divergences of C1 and C2, as reachable states
\* a parameter of the Paths interface is typed A, and A is declared by the
\* document but not by the type module
C1_DanglingName ==
  /\ pc = "done"
  /\ nA \in Declared(openapi) \ EmittedTypes
  /\ \E r \in DOMAIN pathsOut : \E k \in DOMAIN pathsOut[r].methods :
       \E f \in Range(pathsOut[r].methods[k].parameters.query) : f.type = NameType(nA)
\* Z is emitted and no operation of the document reaches it
C2_Surplus ==
  /\ pc = "done"
  /\ HasOperation(openapi)
  /\ nZ \in (EmittedTypes \cap EmittedSchemas) \ Reachable(openapi)

\* ------------------------------------------------------------------ C5
Keys(entries) == [i \in DOMAIN entries |-> entries[i].key]
EnumKeys == [i \in DOMAIN enums |-> enums[i][1]]
EmptyPaths == pc = "done" /\ openapi.paths = <<>>

\* C5: for a document whose paths map is empty the build emits every declared
\* enum and every Named Definition, the latter with a type entry (its enum
\* declaration, when it is an Enum Definition) and a validator entry.
C5_EmptyDocumentEmitsAll ==
  EmptyPaths =>
    /\ Keys(output.enums) = EnumKeys
    /\ \A n \in Declared(openapi) :
         /\ n \in EmittedTypes \cup Range(Keys(output.enums))
         /\ n \in EmittedSchemas

\* C5, amended: for a document whose paths map is empty the type module
\* declares every Enum Definition and the runtime module exports every one of
\* them, in document order, and no Named Definition is emitted as a component:
\* neither a component type entry nor a validator entry.
C5_EmptyDocumentEmitsEnums ==
  EmptyPaths =>
    /\ Keys(output.enums) = EnumKeys
    /\ Keys(outputJs.enums) = EnumKeys
    /\ output.components = <<>>
    /\ componentsZodOut = <<>>
\* a document without paths that declares an enum and a definition that is
\* none: the enum is declared, and no definition has a type or a validator
C5_Witness ==
  /\ EmptyPaths
  /\ enums # <<>>
  /\ Declared(openapi) \ EnumNames # {}
  /\ Keys(output.enums) = EnumKeys
  /\ EmittedTypes \cup EmittedSchemas = {}

\* ------------------------------------------------------------------ C6
\* the declarations of the type module in the order it prints them: the enum
\* section, then the component types
TypeDeclarations == Keys(output.enums) \o Keys(output.components)
Occurrences(s, x) == Cardinality({i \in DOMAIN s : s[i] = x})

ExactEnums(values) ==
  {i \in DOMAIN enums :
     /\ Len(enums[i][2].values) = Len(values)
     /\ \A k \in DOMAIN values : enums[i][2].values[k] = values[k]}
\* the nodes typeFromSchema has rendered
RenderedNodes == DOMAIN schemaCache

Holding(value) == {i \in DOMAIN enums : \E k \in DOMAIN enums[i][2].values : enums[i][2].values[k] = value}
GenericHolding(value) == {i \in Holding(value) : IsGenericDiscriminator(enums[i][1])}
MemberOf(i, value) ==
  MemberType(enums[i][1],
             enums[i][2].varnames[MinOrZero({k \in DOMAIN enums[i][2].values :
                                               enums[i][2].values[k] = value})])

\* C8: a const node whose value is a member of both a generic discriminator
\* enum (its name matches CommandOptionType) and an enum that is none is
\* rendered by typeFromSchema as the member of the latter, whatever the order
\* of the two definitions.
C8_ConstPrefersSpecificEnum ==
  \A id \in RenderedNodes :
    (/\ Has(NodeAt(openapi, id), "const")
     /\ GenericHolding(NodeAt(openapi, id).const) # {}
     /\ Holding(NodeAt(openapi, id).const) \ GenericHolding(NodeAt(openapi, id).const) # {})
      => \E i \in Holding(NodeAt(openapi, id).const) \ GenericHolding(NodeAt(openapi, id).const) :
           schemaCache[id] = MemberOf(i, NodeAt(openapi, id).const)
\* a const node was rendered as a member of CommandOptionType although another
\* enum holds the value
C8_GenericMember ==
  \E id \in RenderedNodes :
    /\ Has(NodeAt(openapi, id), "const")
    /\ Holding(NodeAt(openapi, id).const) \ GenericHolding(NodeAt(openapi, id).const) # {}
    /\ \E i \in GenericHolding(NodeAt(openapi, id).const) :
         schemaCache[id] = MemberOf(i, NodeAt(openapi, id).const)

\* ------------------------------------------------------------------ C9
\* the entries of the Paths interface stand in the order of the operations of
\* their route: the k-th method record belongs to the k-th operation
OperationsOf(d, r) ==
  SelectSeq([e \in DOMAIN d.paths[r][2].entries |-> e],
            LAMBDA e : IsHttpMethod(toLowerCase(d.paths[r][2].entries[e][1])))
\* the priority of a content type: its place in the fixed order, 0 when the
\* order does not list it
Priority(ct) ==
  IF ct = "application/json" THEN 1
  ELSE IF ct = "application/merge-patch+json" THEN 2
  ELSE IF ct = "multipart/form-data" THEN 3
  ELSE IF ct = "application/x-www-form-urlencoded" THEN 4
  ELSE IF ct = "image/png" THEN 5
  ELSE 0
WithSchema(content) == {i \in DOMAIN content : content[i][2].schema # <<>>}
Listed(content) == {i \in WithSchema(content) : Priority(content[i][1]) # 0}
\* the entry the priority rule selects, 0 when no entry has a schema
Preferred(content) ==
  IF Listed(content) # {}
  THEN CHOOSE i \in Listed(content) :
         \A j \in Listed(content) : Priority(content[i][1]) <= Priority(content[j][1])
  ELSE MinOrZero(WithSchema(content))
\* a projected body (type and content type) is the one the rule selects from
\* the content map found at position base
Selects(type, ct, content, base) ==
  IF Preferred(content) = 0 THEN type = tUnknown /\ ct = "unknown"
  ELSE /\ ct = content[Preferred(content)][1]
       /\ Append(base, Preferred(content)) \in DOMAIN schemaCache
       /\ type = schemaCache[Append(base, Preferred(content))]
ProjectedOperations ==
  UNION {{<<r, k>> : k \in DOMAIN pathsOut[r].methods} : r \in DOMAIN pathsOut}
EntryOf(rk) == OperationsOf(openapi, rk[1])[rk[2]]
RecordOf(rk) == pathsOut[rk[1]].methods[rk[2]]

\* C9: for every content map (of a response or a request body) pickContentType
\* returns the schema of the content type of highest priority among those that
\* have a schema, in the order application/json, application/merge-patch+json,
\* multipart/form-data, application/x-www-form-urlencoded, image/png, and the
\* first entry with a schema when none of these has one; so the result does
\* not depend on the order of the content map when a listed type has a schema.
C9_ContentTypePriority ==
  \A rk \in ProjectedOperations :
    /\ \A x \in DOMAIN RecordOf(rk).responses :
         Selects(RecordOf(rk).responses[x].type, RecordOf(rk).responses[x].contentType,
                 OpAt(rk[1], EntryOf(rk)).responses[x][2].content,
                 ResponseId(rk[1], EntryOf(rk), x))
    /\ Has(OpAt(rk[1], EntryOf(rk)), "requestBody") =>
         Selects(RecordOf(rk).requestBody, RecordOf(rk).requestContentType,
                 OpAt(rk[1], EntryOf(rk)).requestBody.content,
                 RequestBodyId(rk[1], EntryOf(rk)))
\* a response declares a type the order does not list before application/json,
\* both with a schema, and is projected with the JSON schema
C9_Witness ==
  \E rk \in ProjectedOperations : \E x \in DOMAIN RecordOf(rk).responses :
    /\ Len(OpAt(rk[1], EntryOf(rk)).responses[x][2].content) = 2
    /\ OpAt(rk[1], EntryOf(rk)).responses[x][2].content[1][1] = "application/octet-stream"
    /\ OpAt(rk[1], EntryOf(rk)).responses[x][2].content[2][1] = "application/json"
    /\ WithSchema(OpAt(rk[1], EntryOf(rk)).responses[x][2].content) = {1, 2}
    /\ RecordOf(rk).responses[x].contentType = "application/json"
    /\ RecordOf(rk).responses[x].type = NameType(nA)

\* ----------------------------------------------------------------- C10
\* the parameters an operation declares itself, references resolved
OwnParameters(d, r, e) ==
  UNION {Resolved(d, p) : p \in Range(d.paths[r][2].entries[e][2].parameters)}
\* the route-level parameters of a route, references resolved, that declare
\* one of the four locations
RouteParameters(d, r) ==
  {p \in UNION {Resolved(d, p0) : p0 \in Range(d.paths[r][2].parameters)} :
     Has(p, "in") /\ p.in \in Locations}
Redeclared(d, r, e, p) == \E q \in OwnParameters(d, r, e) : q.name = p.name /\ q.in = p.in

\* C10: for every route and every HTTP method on it, each route-level
\* parameter (given in place or as a reference to a reusable parameter) that
\* the method does not declare again is a field of the method's parameter
\* record, in the group of the location the parameter declares.
C10_ParameterInheritance ==
  \A rk \in ProjectedOperations :
    \A p \in RouteParameters(openapi, rk[1]) :
      ~Redeclared(openapi, rk[1], EntryOf(rk), p) =>
        \E f \in Range(RecordOf(rk).parameters[p.in]) :
          f.name = p.name /\ f.required = p.required
\* an operation without parameters of its own carries the header parameter of
\* its route, beside an operation of the same route that has its own
C10_Witness ==
  \E rk \in ProjectedOperations :
    /\ OpAt(rk[1], EntryOf(rk)).parameters = <<>>
    /\ \E p \in RouteParameters(openapi, rk[1]) : p.in = "header"
    /\ RecordOf(rk).parameters.header # <<>>
    /\ RecordOf(rk).parameters.path = <<>>
    /\ \E rk2 \in ProjectedOperations :
         rk2[1] = rk[1] /\ OpAt(rk2[1], EntryOf(rk2)).parameters # <<>>

\* ----------------------------------------------------------------- C11
\* the routes projected so far
ProjectedRoutes == DOMAIN pathsOut
MethodKey(re) == toLowerCase(openapi.paths[re[1]][2].entries[re[2]][1])
RouteOf(r) == openapi.paths[r][1]
\* the list a module prints for method m, <<>> when it prints none
ListedUnder(list, m) ==
  IF \E i \in DOMAIN list : list[i][1] = m
  THEN list[CHOOSE i \in DOMAIN list : list[i][1] = m][2]
  ELSE <<>>

\* C11: once a route is projected, the route list of each HTTP method that the
\* route defines (get, put, post, delete, patch, options, head, trace, in any
\* letter case) holds the route exactly once, whatever the usage sets hold, and
\* holds no route that does not define the method; and the lists printed in
\* the type module are those printed in the runtime module, each the list the
\* projection built.
C11_PathIndexComplete ==
  /\ \A re \in Operations(openapi) :
       re[1] \in ProjectedRoutes =>
         Occurrences(pathsListMap[MethodKey(re)], RouteOf(re[1])) = 1
  /\ \A m \in Range(httpMethods) : \A i \in DOMAIN pathsListMap[m] :
       \E re \in Operations(openapi) :
         re[1] \in ProjectedRoutes /\ MethodKey(re) = m /\ RouteOf(re[1]) = pathsListMap[m][i]
  /\ pc = "done" =>
       /\ output.pathsList = outputJs.pathsList
       /\ \A m \in Range(httpMethods) : ListedUnder(output.pathsList, m) = pathsListMap[m]
\* a route that defines one method under two spellings is listed once
C11_Witness ==
  /\ pc = "done"
  /\ \E re1, re2 \in Operations(openapi) :
       re1[1] = re2[1] /\ re1[2] # re2[2] /\ MethodKey(re1) = MethodKey(re2)
  /\ ListedUnder(outputJs.pathsList, <<"g","e","t">>) = <<"/a">>

\* ----------------------------------------------------------------- C12
\* the sanitized names of the references of the document
ReferencedNames == {toTypeName(RefName(x[2])) : x \in {y \in Range(AllNodes(openapi)) : Has(y[2], "$ref")}}

\* C12: the usage sets are written by the marking pass only: no step after it
\* (component emission, path projection, assembly) changes the set of used
\* Named Definitions or the set of used Enum Definitions.
C12_FrozenAfterMarking ==
  [][pc # "mark" => (usedComponents' = usedComponents /\ usedEnums' = usedEnums)]_vars

\* C12, amended: the usage sets only grow during a run, the used Named
\* Definitions hold sanitized names of references of the document only and the
\* used Enum Definitions keys of the enum table only; enum collection and
\* output assembly leave both sets as they are, while component emission and
\* path projection may add to them (typeFromSchema and zodFromSchema mark the
\* references they render, the enum lookups the enums they resolve to).
C12_AppendOnly ==
  [][/\ usedComponents \subseteq usedComponents'
     /\ usedEnums \subseteq usedEnums'
     /\ usedComponents' \subseteq ReferencedNames
     /\ usedEnums' \subseteq EnumNames'
     /\ pc \in {"enums", "assemble"} =>
          (usedComponents' = usedComponents /\ usedEnums' = usedEnums)]_vars
\* an enum no reference names is in the used set at the end: a lookup put it
\* there during synthesis
C12_Witness ==
  /\ pc = "done"
  /\ usedEnums # {}
  /\ usedEnums \cap usedComponents = {}

\* ----------------------------------------------------------------- C13
\* C13: when the document has at least one operation, the type module
\* declares an Enum Definition only if it is in the used-enum set.
C13_PrunedWhenOperations ==
  (pc = "done" /\ HasOperation(openapi)) => Range(Keys(output.enums)) \subseteq usedEnums

\* C13, amended: the type module declares exactly the Enum Definitions of the
\* used-enum set, in document order, unless that set is empty when the output
\* is assembled: then it declares every Enum Definition, whether the document
\* has operations or not.
C13_PrunedUnlessNoneUsed ==
  pc = "done" =>
    Keys(output.enums)
      = IF usedEnums = {} THEN EnumKeys ELSE SelectSeq(EnumKeys, LAMBDA k : k \in usedEnums)
\* a document with an operation, one enum used and declared, another one not
C13_Witness ==
  /\ pc = "done"
  /\ HasOperation(openapi)
  /\ usedEnums # {}
  /\ Range(Keys(output.enums)) = usedEnums
  /\ EnumNames \ usedEnums # {}
\* a document with an operation that uses no enum: every enum is declared
C13_AllDeclared ==
  /\ pc = "done"
  /\ HasOperation(openapi)
  /\ usedEnums = {}
  /\ enums # <<>>
  /\ Keys(output.enums) = EnumKeys

\* ----------------------------------------------------------------- C14
\* the values a node spells out: its const, or its enum list
LiteralValues(n) == IF Has(n, "const") THEN <<n.const>> ELSE n.enum
\* the enums an allOf entry of the node refers to that hold all its values
ReferredEnums(n) ==
  {i \in DOMAIN enums :
     /\ \E k \in DOMAIN n.allOf : Has(n.allOf[k], "$ref") /\ RefName(n.allOf[k]) = enums[i][1]
     /\ \A k \in DOMAIN LiteralValues(n) : i \in Holding(LiteralValues(n)[k])}
LiteralWithAllOf(n) ==
  Has(n, "allOf") /\ (Has(n, "const") \/ Has(n, "enum")) /\ ReferredEnums(n) # {}

\* C14: a node that carries a const or an enum list together with an allOf
\* that refers to an enum holding the values is rendered by typeFromSchema
\* from the enum referred to: as its qualified member for one value (also when
\* an enum earlier in the table holds the value), as its type name for several.
C14_LiteralViaComposition ==
  \A id \in RenderedNodes :
    LiteralWithAllOf(NodeAt(openapi, id)) =>
      \E i \in ReferredEnums(NodeAt(openapi, id)) :
        schemaCache[id] = IF Len(LiteralValues(NodeAt(openapi, id))) = 1
                          THEN MemberOf(i, LiteralValues(NodeAt(openapi, id))[1])
                          ELSE NameType(enums[i][1])
\* the items of an array carry `const` and an allOf that refers to E, and are
\* rendered as a member of the enum declared before E
C14_OtherEnumMember ==
  \E id \in RenderedNodes :
    /\ LiteralWithAllOf(NodeAt(openapi, id))
    /\ Has(NodeAt(openapi, id), "const")
    /\ id[Len(id)] = Slot.items
    /\ \E j \in Holding(NodeAt(openapi, id).const) \ ReferredEnums(NodeAt(openapi, id)) :
         schemaCache[id] = MemberOf(j, NodeAt(openapi, id).const)

\* ----------------------------------------------------------------- C15
\* the fields of a parameter record that carry a name, in one location
FieldsNamed(record, in, name) ==
  {i \in DOMAIN record.parameters[in] : record.parameters[in][i].name = name}

\* C15: when a route-level parameter and a parameter of the operation have the
\* same name and location, the operation's parameter record has exactly one
\* field of that name in that location, and it carries the definition of the
\* operation's own parameter.
C15_MethodLevelOverrides ==
  \A rk \in ProjectedOperations :
    \A p \in RouteParameters(openapi, rk[1]) :
      \A q \in OwnParameters(openapi, rk[1], EntryOf(rk)) :
        (q.name = p.name /\ q.in = p.in) =>
          /\ Cardinality(FieldsNamed(RecordOf(rk), p.in, p.name)) = 1
          /\ \A i \in FieldsNamed(RecordOf(rk), p.in, p.name) :
               RecordOf(rk).parameters[p.in][i].required = q.required
\* a parameter record lists the path parameter `id` twice: first as the route
\* declares it, then as the operation does
C15_BothFields ==
  \E rk \in ProjectedOperations :
    /\ Len(RecordOf(rk).parameters.path) = 2
    /\ RecordOf(rk).parameters.path[1].name = RecordOf(rk).parameters.path[2].name
    /\ RecordOf(rk).parameters.path[1].required
    /\ ~RecordOf(rk).parameters.path[2].required
    /\ RecordOf(rk).parameters.path[1].type = tString
    /\ RecordOf(rk).parameters.path[2].type = tNumber

\* ----------------------------------------------------------------- C16
\* a node whose `type` is a list and that has no reference, enum, const or
\* composition keyword
PlainTypeList(n) ==
  Has(n, "typeList") /\ n.keys \cap {"$ref", "enum", "const", "oneOf", "anyOf", "allOf"} = {}
\* the branches of a rendered union, and of a rendered z.union([...]); the
\* branches of the documents explored hold no separator themselves
Count(t, sep) == Cardinality({i \in DOMAIN t : t[i] = sep[1]})
TypeBranches(t) == 1 + Count(t, pOr)
ZodBranches(zod) == 1 + Count(zod, pComma)

\* C16: a node whose `type` is a list is rendered by typeFromSchema as a
\* union with one branch per listed type, `null` among them when it is listed,
\* also when the node declares `properties`; and the validator zodFromSchema
\* produces for it has as many branches.
C16_TypeListUnion ==
  /\ \A id \in RenderedNodes :
       PlainTypeList(NodeAt(openapi, id)) =>
         /\ TypeBranches(schemaCache[id]) = Len(NodeAt(openapi, id).type)
         /\ "null" \in Range(NodeAt(openapi, id).type) => tNull[1] \in Range(schemaCache[id])
  /\ \A i \in DOMAIN componentsOut :
       PlainTypeList(BodyOf(openapi, componentsOut[i].key)) =>
         \A j \in DOMAIN componentsZodOut :
           componentsZodOut[j].key = componentsOut[i].key =>
             ZodBranches(componentsZodOut[j].zod) = TypeBranches(componentsOut[i].type)
\* the type of a definition with `type: ["object", "null"]` and `properties`
\* is the object alone, and its validator is a union of two
C16_NullDropped ==
  \E i \in DOMAIN componentsOut : \E j \in DOMAIN componentsZodOut :
    /\ componentsZodOut[j].key = componentsOut[i].key
    /\ BodyOf(openapi, componentsOut[i].key).type = <<"object", "null">>
    /\ Has(BodyOf(openapi, componentsOut[i].key), "properties")
    /\ TypeBranches(componentsOut[i].type) = 1
    /\ tNull[1] \notin Range(componentsOut[i].type)
    /\ ZodBranches(componentsZodOut[j].zod) = 2

\* ----------------------------------------------------------------- C17
\* every reference of the document names a present definition: the references
\* below the bodies of the declared names, below the schemas of every entry of
\* every path item and of the route-level parameters, and the references to
\* reusable parameters
ParameterRefsResolve(d) ==
  \A r \in DOMAIN d.paths :
    /\ \A p \in Range(d.paths[r][2].parameters) : Resolved(d, p) # {}
    /\ \A e \in DOMAIN d.paths[r][2].entries :
         \A p \in Range(d.paths[r][2].entries[e][2].parameters) : Resolved(d, p) # {}
WellReferenced(d) ==
  /\ Closure(d, Declared(d)) \subseteq Declared(d)
  /\ ReachableFromPaths(d) \subseteq Declared(d)
  /\ ParameterRefsResolve(d)
\* the type and enum names a rendered type mentions
NamesIn(t) == {t[i][2] : i \in {j \in DOMAIN t : t[j][1] = "name"}}
NamesInRecord(rec) ==
  UNION {NamesIn(f.type) : f \in UNION {Range(rec.parameters[in]) : in \in Locations}}
  \cup NamesIn(rec.requestBody)
  \cup UNION {NamesIn(x.type) : x \in Range(rec.responses)}
NamesInPaths ==
  UNION {NamesInRecord(rec) :
           rec \in UNION {Range(output.paths[r].methods) : r \in DOMAIN output.paths}}
NamesInComponents == UNION {NamesIn(c.type) : c \in Range(output.components)}
DeclaredNames ==
  {c.name : c \in Range(output.components)} \cup {e.name : e \in Range(output.enums)}

\* C17: for a document whose references all name present definitions, every
\* Named Definition or enum name that occurs in the type module (in a component
\* type, or in the parameter records, request body or responses of Paths) is
\* declared by the type module as an exported type or as an enum.
C17_NoDanglingNames ==
  (pc = "done" /\ WellReferenced(openapi)) =>
    (NamesInComponents \cup NamesInPaths) \subseteq DeclaredNames
\* every reference of the document resolves, and Paths mentions a name the
\* type module does not declare
C17_UndeclaredInPaths ==
  /\ pc = "done"
  /\ WellReferenced(openapi)
  /\ NamesInPaths \ DeclaredNames # {}
  /\ NamesInComponents \subseteq DeclaredNames

\* ----------------------------------------------------------------- C18
\* the qualified members E.M a rendered type mentions
MemberRefs(t) ==
  {<<t[i][2], t[i + 2][2]>> :
     i \in {j \in 1..(Len(t) - 2) : t[j][1] = "name" /\ t[j + 2][1] = "member"}}
\* the members the type module declares under key M in its declaration of E
DeclaredMembers(E, M) ==
  UNION {{m \in Range(e.members) : m.key = M} : e \in {x \in Range(output.enums) : x.name = E}}
\* the value a node looks up: its `const`, or the one value of its `enum`
IsLookup(n) == Has(n, "const") \/ (Has(n, "enum") /\ Len(n.enum) = 1)
LookedUp(n) == IF Has(n, "const") THEN n.const ELSE n.enum[1]

\* C18: every qualified member E.M a lookup returns names a member that the
\* declaration printEnum writes for E declares under the key M, and when the
\* node looked a value up (its `const` or the single value of its `enum`) that
\* member has the looked-up value; also when the member name is not an
\* identifier or starts with a digit.
C18_MemberAgreement ==
  pc = "done" =>
    \A id \in RenderedNodes : \A ref \in MemberRefs(schemaCache[id]) :
      /\ DeclaredMembers(ref[1], ref[2]) # {}
      /\ (IsLookup(NodeAt(openapi, id)) /\ Len(schemaCache[id]) = 3) =>
           \E m \in DeclaredMembers(ref[1], ref[2]) :
             m.value = JsonStringify(LookedUp(NodeAt(openapi, id)))
\* the value 1 of an enum without names is looked up as E._1, and the
\* declaration of E holds the value under the key "1" and has no member _1
C18_DigitMember ==
  /\ pc = "done"
  /\ \E id \in RenderedNodes :
       /\ IsLookup(NodeAt(openapi, id))
       /\ LookedUp(NodeAt(openapi, id)) = v1
       /\ schemaCache[id] = MemberType(nE, <<"1">>)
       /\ DeclaredMembers(nE, <<"_", "1">>) = {}
       /\ \E m \in DeclaredMembers(nE, QuoteString(<<"1">>)) : m.value = <<"1">>

====
